---------------------------- MODULE Spec2Model ----------------------------
(***************************************************************************)
(* argparse: the argument holders, the holder registries and the scan of   *)
(* Parser::ParseArgs of the single-header library (the version with tail   *)
(* arguments and optional-returning casters).                              *)
(*                                                                         *)
(* A std::string is a sequence of one-character strings, so "--in=1" is    *)
(* <<"-","-","i","n","=","1">>.  A std::optional<T> is a sequence of       *)
(* length 0 (nullopt) or 1.  Indices into args keep the C++ numbering      *)
(* (args[0] is the program name); At(s, k) reads s[k].  A backquote in an  *)
(* error message is written as an apostrophe.                              *)
(***************************************************************************)
EXTENDS Integers, Sequences, FiniteSets, TLC

\* ------------------------------------------------------------------------
\* Bounds of the model
\* ------------------------------------------------------------------------

\* number of tokens after the program name in an argument vector
MaxArgs == 3

\* number of positional arguments a parser declares
MaxPositionals == 2

\* ------------------------------------------------------------------------
\* std::optional, std::string
\* ------------------------------------------------------------------------

nullopt == <<>>

Some(v) == <<v>>

At(s, k) == s[k + 1]

\* std::string::substr(pos)
SubstrFrom(s, pos) == SubSeq(s, pos + 1, Len(s))

\* std::string::substr(pos, n)
Substr(s, pos, n) == SubSeq(s, pos + 1, IF pos + n > Len(s) THEN Len(s) ELSE pos + n)

\* std::string::find(ch): the least position holding ch, or npos
npos == -1

Find(s, ch) ==
  IF \E k \in 1..Len(s) : s[k] = ch
  THEN (CHOOSE k \in 1..Len(s) : s[k] = ch /\ \A j \in 1..(k - 1) : s[j] # ch) - 1
  ELSE npos

\* the '\0' short name: "no short name"
NUL == "NUL"

\* ------------------------------------------------------------------------
\* detail:: helpers
\* ------------------------------------------------------------------------

\* SplitLongArg splitting at the last '='
SplitLongArg_AtLast(arg) ==
  LET eqs == {p \in 0..(Len(arg) - 1) : At(arg, p) = "="}
      pos == CHOOSE p \in eqs : \A q \in eqs : q <= p
  IN  IF eqs = {}
      THEN [name |-> arg, value |-> nullopt]
      ELSE [name |-> Substr(arg, 0, pos), value |-> Some(SubstrFrom(arg, pos + 1))]

\* detail::SplitLongArg: split at the first '='
SplitLongArg(arg) ==
  LET pos == Find(arg, "=")
  IN  IF pos = npos
      THEN [name |-> arg, value |-> nullopt]
      ELSE [name |-> Substr(arg, 0, pos), value |-> Some(SubstrFrom(arg, pos + 1))]

\* EscapeValue dropping up to two leading backslashes
EscapeValue_Twice(value) ==
  LET once == IF Len(value) > 0 /\ value[1] = "\\" THEN SubstrFrom(value, 1)
              ELSE value
  IN  IF Len(once) > 0 /\ once[1] = "\\" THEN SubstrFrom(once, 1) ELSE once

\* detail::EscapeValue: drop one leading backslash
EscapeValue(value) ==
  IF Len(value) > 0 /\ value[1] = "\\" THEN SubstrFrom(value, 1) ELSE value

Digits == {"0", "1", "2", "3", "4", "5", "6", "7", "8", "9"}

DigitValue(ch) ==
  CASE ch = "0" -> 0 [] ch = "1" -> 1 [] ch = "2" -> 2 [] ch = "3" -> 3
    [] ch = "4" -> 4 [] ch = "5" -> 5 [] ch = "6" -> 6 [] ch = "7" -> 7
    [] ch = "8" -> 8 [] ch = "9" -> 9

\* isspace() of the C locale, over the characters the model uses
IsSpace(ch) == ch = " "

\* number of leading characters of s (from position k, 1-based) satisfying
\* the membership test in set S
RECURSIVE RunLength(_, _, _)
RunLength(s, k, S) ==
  IF k <= Len(s) /\ s[k] \in S THEN 1 + RunLength(s, k + 1, S) ELSE 0

RECURSIVE DecimalValue(_, _, _)
DecimalValue(s, from, to) ==
  IF to < from THEN 0 ELSE DecimalValue(s, from, to - 1) * 10 + DigitValue(s[to])

\* std::strtoull / std::strtoll (base 10) as DefaultCaster uses them: skip
\* white space, read an optional sign and the longest run of digits.
\* endptr is the number of characters consumed; 0 when no digit was read.
\* The magnitudes the model feeds stay far below 2^31, where the unsigned
\* negation followed by static_cast<int> is the plain negation.
StrToInteger(str) ==
  LET ws      == RunLength(str, 1, {" "})
      hasSign == ws + 1 <= Len(str) /\ str[ws + 1] \in {"-", "+"}
      first   == ws + (IF hasSign THEN 1 ELSE 0) + 1
      nd      == RunLength(str, first, Digits)
      mag     == DecimalValue(str, first, first + nd - 1)
  IN  IF nd = 0
      THEN [result |-> 0, endptr |-> 0]
      ELSE [result |-> IF hasSign /\ str[ws + 1] = "-" THEN 0 - mag ELSE mag,
            endptr |-> first + nd - 1]

\* detail::DefaultCaster<Dst> for Dst = int and Dst = std::string
DefaultCaster(type, str) ==
  IF type = "int"
  THEN LET r == StrToInteger(str)
       IN  IF r.endptr # Len(str) THEN nullopt ELSE Some(r.result)
  ELSE Some(str)

\* detail::DefaultEquals for a type with operator==
DefaultEquals(a, b) == Some(a = b)

\* IsValidValue comparing with the first option only
IsValidValue_FirstOnly(value, options) ==
  Len(options) > 0 /\ DefaultEquals(value, options[1])[1]

\* detail::IsValidValue
IsValidValue(value, options) ==
  \E k \in 1..Len(options) : DefaultEquals(value, options[k])[1]

\* ------------------------------------------------------------------------
\* Errors: the message of the ArgparseError an operation throws, with the
\* name the message quotes; NoError when it returns normally
\* ------------------------------------------------------------------------

Error(msg, subject) == [msg |-> msg, subject |-> subject]

NoError == Error("", <<>>)

Failed(e) == e.msg # ""

\* ------------------------------------------------------------------------
\* Argument holders
\* ------------------------------------------------------------------------

\* FlagHolder::FlagHolder
NewFlagHolder(fullname, shortname) ==
  [kind |-> "flag", fullname_ |-> fullname, shortname_ |-> shortname,
   required_ |-> FALSE, value_ |-> 0]

\* ArgHolder<Type>::ArgHolder
NewArgHolder(type, fullname, shortname) ==
  [kind |-> "arg", type |-> type, fullname_ |-> fullname,
   shortname_ |-> shortname, required_ |-> FALSE, value_ |-> nullopt,
   options_ |-> nullopt, contains_default_ |-> TRUE]

\* MultiArgHolder<Type>::MultiArgHolder
NewMultiArgHolder(type, fullname, shortname) ==
  [kind |-> "multi", type |-> type, fullname_ |-> fullname,
   shortname_ |-> shortname, required_ |-> FALSE, values_ |-> <<>>,
   options_ |-> nullopt, contains_default_ |-> TRUE]

\* FlagHolder / ArgHolder / MultiArgHolder ::HasValue
HasValue(h) ==
  CASE h.kind = "flag"  -> TRUE
    [] h.kind = "arg"   -> h.value_ # nullopt
    [] h.kind = "multi" -> h.values_ # <<>>

\* RequiresValue answering true for a flag as well
RequiresValue_Always(h) == h.kind \in {"flag", "arg", "multi"}

\* FlagHolder / ArgHolder / MultiArgHolder ::RequiresValue
RequiresValue(h) == h.kind # "flag"

\* set_required without its guard on HasValue()
set_required_Unguarded(h, required) ==
  [holder |-> [h EXCEPT !.required_ = required], err |-> NoError]

\* ArgHolderBase::set_required
set_required(h, required) ==
  IF HasValue(h)
  THEN [holder |-> h,
        err |-> Error("Argument with a default value can't be required", <<>>)]
  ELSE [holder |-> [h EXCEPT !.required_ = required], err |-> NoError]

\* ProcessFlag with a flag that is set rather than counted
ProcessFlag_SetOnce(h) ==
  CASE h.kind = "flag" ->
         [holder |-> [h EXCEPT !.value_ = 1], err |-> NoError]
    [] h.kind = "arg" ->
         [holder |-> h, err |-> Error("Argument requires a value", h.fullname_)]
    [] h.kind = "multi" ->
         [holder |-> h, err |-> Error("This argument requires a value", <<>>)]

\* FlagHolder / ArgHolder / MultiArgHolder ::ProcessFlag
ProcessFlag(h) ==
  CASE h.kind = "flag" ->
         [holder |-> [h EXCEPT !.value_ = @ + 1], err |-> NoError]
    [] h.kind = "arg" ->
         [holder |-> h, err |-> Error("Argument requires a value", h.fullname_)]
    [] h.kind = "multi" ->
         [holder |-> h, err |-> Error("This argument requires a value", <<>>)]

\* ArgHolder<Type>::ProcessValue refusing a value whenever one is held, a
\* default included
ArgProcessValue_DefaultCounts(h, value_str) ==
  IF HasValue(h)
  THEN [holder |-> h,
        err |-> Error("Argument accepts only one value", h.fullname_)]
  ELSE LET value == DefaultCaster(h.type, value_str)
       IN  IF value = nullopt
           THEN [holder |-> h,
                 err |-> Error("Failed to cast argument string to value type",
                               h.fullname_)]
           ELSE IF h.options_ # nullopt /\ ~IsValidValue(value[1], h.options_[1])
           THEN [holder |-> h,
                 err |-> Error("Provided argument string casts to an illegal value",
                               h.fullname_)]
           ELSE [holder |-> [h EXCEPT !.value_ = Some(value[1])], err |-> NoError]

\* ArgHolder<Type>::ProcessValue storing the value before it tests the
\* options
ArgProcessValue_StoreThenCheck(h, value_str) ==
  IF HasValue(h) /\ ~h.contains_default_
  THEN [holder |-> h,
        err |-> Error("Argument accepts only one value", h.fullname_)]
  ELSE LET value == DefaultCaster(h.type, value_str)
       IN  IF value = nullopt
           THEN [holder |-> h,
                 err |-> Error("Failed to cast argument string to value type",
                               h.fullname_)]
           ELSE IF h.options_ # nullopt /\ ~IsValidValue(value[1], h.options_[1])
           THEN [holder |-> [h EXCEPT !.value_ = Some(value[1])],
                 err |-> Error("Provided argument string casts to an illegal value",
                               h.fullname_)]
           ELSE [holder |-> [h EXCEPT !.value_ = Some(value[1])], err |-> NoError]

\* ArgHolder<Type>::ProcessValue
ArgProcessValue(h, value_str) ==
  IF HasValue(h) /\ ~h.contains_default_
  THEN [holder |-> h,
        err |-> Error("Argument accepts only one value", h.fullname_)]
  ELSE LET value == DefaultCaster(h.type, value_str)
       IN  IF value = nullopt
           THEN [holder |-> h,
                 err |-> Error("Failed to cast argument string to value type",
                               h.fullname_)]
           ELSE IF h.options_ # nullopt /\ ~IsValidValue(value[1], h.options_[1])
           THEN [holder |-> h,
                 err |-> Error("Provided argument string casts to an illegal value",
                               h.fullname_)]
           ELSE [holder |-> [h EXCEPT !.value_ = Some(value[1])], err |-> NoError]

\* MultiArgHolder<Type>::ProcessValue appending to the default list
MultiArgProcessValue_KeepDefault(h, value_str) ==
  LET value == DefaultCaster(h.type, value_str)
  IN  IF value = nullopt
      THEN [holder |-> h,
            err |-> Error("Failed to cast string to value type", <<>>)]
      ELSE [holder |-> [h EXCEPT !.values_ = Append(@, value[1]),
                                 !.contains_default_ = FALSE],
            err |-> NoError]

\* MultiArgHolder<Type>::ProcessValue
MultiArgProcessValue(h, value_str) ==
  LET h1 == IF h.contains_default_
            THEN [h EXCEPT !.values_ = <<>>, !.contains_default_ = FALSE]
            ELSE h
      value == DefaultCaster(h.type, value_str)
  IN  IF value = nullopt
      THEN [holder |-> h1,
            err |-> Error("Failed to cast string to value type", <<>>)]
      ELSE IF h1.options_ # nullopt /\ ~IsValidValue(value[1], h1.options_[1])
      THEN [holder |-> h1,
            err |-> Error("Provided argument string casts to an illegal value", <<>>)]
      ELSE [holder |-> [h1 EXCEPT !.values_ = Append(@, value[1])],
            err |-> NoError]

\* FlagHolder::ProcessValue
FlagProcessValue(h, value_str) ==
  [holder |-> h, err |-> Error("Flags don't accept values", <<>>)]

\* ArgHolderBase::ProcessValue (virtual dispatch)
ProcessValue(h, value_str) ==
  CASE h.kind = "flag"  -> FlagProcessValue(h, value_str)
    [] h.kind = "arg"   -> ArgProcessValue(h, value_str)
    [] h.kind = "multi" -> MultiArgProcessValue(h, value_str)

\* ArgHolder<Type>::set_value
set_value(h, value) ==
  IF h.required_
  THEN [holder |-> h,
        err |-> Error("Required argument can't have a default value", <<>>)]
  ELSE [holder |-> [h EXCEPT !.value_ = Some(value)], err |-> NoError]

\* MultiArgHolder<Type>::set_values
set_values(h, values) ==
  IF h.required_
  THEN [holder |-> h,
        err |-> Error("Required argument can't have a default value", <<>>)]
  ELSE [holder |-> [h EXCEPT !.values_ = values], err |-> NoError]

\* ArgHolder<Type>::set_options and MultiArgHolder<Type>::set_options, for a
\* Type with operator== (meta::EqualExists<Type>::value is true)
set_options(h, options) ==
  IF options = <<>>
  THEN [holder |-> h, err |-> Error("Set of options can't be empty", h.fullname_)]
  ELSE [holder |-> [h EXCEPT !.options_ = Some(options)], err |-> NoError]

\* ------------------------------------------------------------------------
\* detail::Holders: holders_ maps a full name to its holder,
\* short_long_mapping_ maps a short name to a full name
\* ------------------------------------------------------------------------

EmptyMap == [k \in {} |-> 0]

EmptyHolders == [holders_ |-> EmptyMap, short_long_mapping_ |-> EmptyMap]

help == <<"h", "e", "l", "p">>

\* CheckOptionEntry without the test for the reserved name
CheckOptionEntry_HelpAllowed(H, fullname, shortname) ==
  IF fullname \in DOMAIN H.holders_
  THEN Error("Argument is already defined", fullname)
  ELSE IF shortname \in DOMAIN H.short_long_mapping_
  THEN Error("Argument with shortname is already defined", <<shortname>>)
  ELSE NoError

\* CheckOptionEntry without the test of the short name
CheckOptionEntry_NoShortCheck(H, fullname, shortname) ==
  IF fullname = help
  THEN Error("'help' is a predefined option", <<>>)
  ELSE IF fullname \in DOMAIN H.holders_
  THEN Error("Argument is already defined", fullname)
  ELSE NoError

\* Holders::CheckOptionEntry
CheckOptionEntry(H, fullname, shortname) ==
  IF fullname = help
  THEN Error("'help' is a predefined option", <<>>)
  ELSE IF fullname \in DOMAIN H.holders_
  THEN Error("Argument is already defined", fullname)
  ELSE IF shortname \in DOMAIN H.short_long_mapping_
  THEN Error("Argument with shortname is already defined", <<shortname>>)
  ELSE NoError

\* Holders::UpdateShortLongMapping
UpdateShortLongMapping(H, fullname, shortname) ==
  IF shortname \in DOMAIN H.short_long_mapping_
  THEN [holders |-> H, err |-> Error("Argparse internal assumptions failed", <<>>)]
  ELSE IF shortname # NUL
  THEN [holders |-> [H EXCEPT !.short_long_mapping_ = (shortname :> fullname) @@ @],
        err |-> NoError]
  ELSE [holders |-> H, err |-> NoError]

\* Holders::AddFlag / AddArg<Type> / AddMultiArg<Type>, which differ in the
\* holder they construct: check the entry, index the short name, own the holder
Holders_Add(H, holder) ==
  LET chk == CheckOptionEntry(H, holder.fullname_, holder.shortname_)
      upd == UpdateShortLongMapping(H, holder.fullname_, holder.shortname_)
  IN  IF Failed(chk) THEN [holders |-> H, err |-> chk]
      ELSE IF Failed(upd.err) THEN upd
      ELSE [holders |-> [upd.holders EXCEPT
                           !.holders_ = (holder.fullname_ :> holder) @@ @],
            err |-> NoError]

\* a holder pointer: the registry that owns the holder and its key there
Ref(reg, name) == [reg |-> reg, name |-> name]

nullptr == Ref("null", <<>>)

\* Holders::GetHolderByFullName
Holders_GetHolderByFullName(H, reg, fullname) ==
  IF fullname \notin DOMAIN H.holders_ THEN nullptr ELSE Ref(reg, fullname)

\* Holders::GetHolderByShortName
Holders_GetHolderByShortName(H, reg, shortname) ==
  IF shortname \notin DOMAIN H.short_long_mapping_
  THEN nullptr
  ELSE IF H.short_long_mapping_[shortname] \notin DOMAIN H.holders_
  THEN nullptr
  ELSE Ref(reg, H.short_long_mapping_[shortname])

\* Holders::Size
Size(H) == Cardinality(DOMAIN H.holders_)

\* the holders of a registry that fail the post-parse check
Unsatisfied(H) ==
  {name \in DOMAIN H.holders_ :
     H.holders_[name].required_ /\ ~HasValue(H.holders_[name])}

\* Holders::PerformPostParseCheck: the errors it can throw.  The loop runs
\* over an unordered_map, so which unsatisfied holder it meets first is not
\* determined; the empty set means it returns normally.
Holders_PerformPostParseCheck(H) ==
  {Error("Now value provided for option", name) : name \in Unsatisfied(H)}

RECURSIVE to_string(_)
\* std::to_string of a non-negative integer
to_string(n) ==
  LET d == CHOOSE ch \in Digits : DigitValue(ch) = n % 10
  IN  IF n < 10 THEN <<d>> ELSE to_string(n \div 10) \o <<d>>

\* detail::PositionalArgumentName
PositionalArgumentName(position) ==
  <<"__positional_argument__">> \o to_string(position)

\* ------------------------------------------------------------------------
\* State
\* ------------------------------------------------------------------------

VARIABLES
  global_holders,        \* *detail::GlobalHolders()
  holders_,              \* Parser::holders_
  positionals_,          \* Parser::positionals_
  free_args_,            \* Parser::free_args_ (optional)
  tail_args_,            \* Parser::tail_args_
  parse_global_args_,    \* Parser::parse_global_args_
  pc,                    \* "declare": before ParseArgs; "scan": in its loop;
                         \* "postcheck": the loop is left; "done": ParseArgs
                         \* returned; "failed": ParseArgs threw
  args,                  \* ParseArgs: the argument vector
  tail_mark,             \* ParseArgs: the tail mark (optional)
  i,                     \* ParseArgs: the loop index
  positional_arg_count,  \* ParseArgs: positional slots consumed
  err,                   \* the error the last operation threw, or NoError
  log,                   \* history: the ProcessFlag / ProcessValue calls the
                         \* scan made, in order (and, where a specification
                         \* has two parsers, the construction of the second)
  defaulted              \* history: the default each holder was last given by
                         \* a successful Default(...) call

vars == <<global_holders, holders_, positionals_, free_args_, tail_args_,
          parse_global_args_, pc, args, tail_mark, i, positional_arg_count,
          err, log, defaulted>>

\* the three registries a scan works on
Regs == [g |-> global_holders, l |-> holders_, p |-> positionals_]

Deref(R, ref) == R[ref.reg].holders_[ref.name]

Store(R, ref, h) == [R EXCEPT ![ref.reg].holders_[ref.name] = h]

Call(offset, ref, op, str) == [at |-> offset, ref |-> ref, op |-> op, str |-> str]

\* ------------------------------------------------------------------------
\* Parser: lookup and the two option parsers.  Each returns the registries
\* as the call leaves them, the step width, the error thrown (if any) and
\* the holder calls made.
\* ------------------------------------------------------------------------

\* Parser::GetHolderByFullName
GetHolderByFullName(R, fullname) ==
  LET holder == Holders_GetHolderByFullName(R.g, "g", fullname)
  IN  IF parse_global_args_ /\ holder # nullptr
      THEN holder
      ELSE Holders_GetHolderByFullName(R.l, "l", fullname)

\* the short-name lookup that consults the local registry first
GetHolderByShortName_LocalFirst(R, shortname) ==
  LET holder == Holders_GetHolderByShortName(R.l, "l", shortname)
  IN  IF holder # nullptr
      THEN holder
      ELSE IF parse_global_args_
      THEN Holders_GetHolderByShortName(R.g, "g", shortname)
      ELSE nullptr

\* Parser::GetHolderByShortName
GetHolderByShortName(R, shortname) ==
  LET holder == Holders_GetHolderByShortName(R.g, "g", shortname)
  IN  IF parse_global_args_ /\ holder # nullptr
      THEN holder
      ELSE Holders_GetHolderByShortName(R.l, "l", shortname)

Throw(R, e, calls) == [R |-> R, step |-> 0, err |-> e, calls |-> calls]

\* a delivery after which the scan always advances by one token
DeliverValue_StepOne(R, offset, ref, str, step, calls) ==
  LET r == ProcessValue(Deref(R, ref), str)
  IN  [R |-> Store(R, ref, r.holder), step |-> IF Failed(r.err) THEN 0 ELSE 1,
       err |-> r.err, calls |-> Append(calls, Call(offset, ref, "value", str))]

\* holder->ProcessValue(str) followed by `return step`
DeliverValue(R, offset, ref, str, step, calls) ==
  LET r == ProcessValue(Deref(R, ref), str)
  IN  [R |-> Store(R, ref, r.holder), step |-> IF Failed(r.err) THEN 0 ELSE step,
       err |-> r.err, calls |-> Append(calls, Call(offset, ref, "value", str))]

\* ParseLongArg taking the next token as a value only when it does not start
\* with a dash
ParseLongArg_StopAtDash(R, a, offset) ==
  LET sp     == SplitLongArg(SubstrFrom(At(a, offset), 2))
      name   == sp.name
      value  == sp.value
      holder == GetHolderByFullName(R, name)
  IN  IF holder = nullptr
      THEN Throw(R, Error("Unknown long option", name), <<>>)
      ELSE IF value # nullopt
      THEN IF ~RequiresValue(Deref(R, holder))
           THEN Throw(R, Error("Long option doesn't require a value", name), <<>>)
           ELSE DeliverValue(R, offset, holder, value[1], 1, <<>>)
      ELSE IF ~RequiresValue(Deref(R, holder))
      THEN LET r == ProcessFlag(Deref(R, holder))
           IN  [R |-> Store(R, holder, r.holder),
                step |-> IF Failed(r.err) THEN 0 ELSE 1, err |-> r.err,
                calls |-> <<Call(offset, holder, "flag", <<>>)>>]
      ELSE IF offset + 1 >= Len(a) \/ At(At(a, offset + 1), 0) = "-"
      THEN Throw(R, Error("No value provided for a long option", name), <<>>)
      ELSE DeliverValue(R, offset, holder, At(a, offset + 1), 2, <<>>)

\* Parser::ParseLongArg
ParseLongArg(R, a, offset) ==
  IF ~(Len(At(a, offset)) > 2 /\ Substr(At(a, offset), 0, 2) = <<"-", "-">>)
  THEN Throw(R, Error("Argparse internal assumptions failed", <<>>), <<>>)
  ELSE
  LET sp     == SplitLongArg(SubstrFrom(At(a, offset), 2))
      name   == sp.name
      value  == sp.value
      holder == GetHolderByFullName(R, name)
  IN  IF holder = nullptr
      THEN Throw(R, Error("Unknown long option", name), <<>>)
      ELSE IF value # nullopt
      THEN IF ~RequiresValue(Deref(R, holder))
           THEN Throw(R, Error("Long option doesn't require a value", name), <<>>)
           ELSE DeliverValue(R, offset, holder, value[1], 1, <<>>)
      ELSE IF ~RequiresValue(Deref(R, holder))
      THEN LET r == ProcessFlag(Deref(R, holder))
           IN  [R |-> Store(R, holder, r.holder),
                step |-> IF Failed(r.err) THEN 0 ELSE 1, err |-> r.err,
                calls |-> <<Call(offset, holder, "flag", <<>>)>>]
      ELSE IF offset + 1 >= Len(a)
      THEN Throw(R, Error("No value provided for a long option", name), <<>>)
      ELSE DeliverValue(R, offset, holder, At(a, offset + 1), 2, <<>>)

RECURSIVE ShortArgsLoop(_, _, _, _, _)
\* the loop of ParseShortArgs without the branch for an option like -j5
ShortArgsLoop_NoInline(R, a, offset, k, calls) ==
  LET arg == At(a, offset)
  IN  IF ~(k < Len(arg))
      THEN [R |-> R, step |-> 1, err |-> NoError, calls |-> calls]
      ELSE
      LET ch     == At(arg, k)
          holder == GetHolderByShortName(R, ch)
      IN  IF holder = nullptr
          THEN Throw(R, Error("Unknown short option", <<ch>>), calls)
          ELSE IF RequiresValue(Deref(R, holder))
          THEN IF k + 1 = Len(arg)
               THEN IF offset + 1 >= Len(a)
                    THEN Throw(R, Error("No value provided for a short option",
                                        <<ch>>), calls)
                    ELSE DeliverValue(R, offset, holder, At(a, offset + 1), 2, calls)
               ELSE Throw(R, Error("Short option requiring an argument is not allowed in the middle of short options group", <<>>), calls)
          ELSE LET r == ProcessFlag(Deref(R, holder))
                   c == Append(calls, Call(offset, holder, "flag", <<>>))
               IN  IF Failed(r.err)
                   THEN Throw(Store(R, holder, r.holder), r.err, c)
                   ELSE ShortArgsLoop(Store(R, holder, r.holder), a, offset, k + 1, c)

\* the loop of ParseShortArgs giving the next token to a value-requiring
\* option in the middle of a group
ShortArgsLoop_MidTakesNext(R, a, offset, k, calls) ==
  LET arg == At(a, offset)
  IN  IF ~(k < Len(arg))
      THEN [R |-> R, step |-> 1, err |-> NoError, calls |-> calls]
      ELSE
      LET ch     == At(arg, k)
          holder == GetHolderByShortName(R, ch)
      IN  IF holder = nullptr
          THEN Throw(R, Error("Unknown short option", <<ch>>), calls)
          ELSE IF RequiresValue(Deref(R, holder))
          THEN IF k = 1 /\ Len(arg) > 2
               THEN DeliverValue(R, offset, holder, SubstrFrom(arg, 2), 1, calls)
               ELSE IF offset + 1 >= Len(a)
               THEN Throw(R, Error("No value provided for a short option",
                                   <<ch>>), calls)
               ELSE DeliverValue(R, offset, holder, At(a, offset + 1), 2, calls)
          ELSE LET r == ProcessFlag(Deref(R, holder))
                   c == Append(calls, Call(offset, holder, "flag", <<>>))
               IN  IF Failed(r.err)
                   THEN Throw(Store(R, holder, r.holder), r.err, c)
                   ELSE ShortArgsLoop(Store(R, holder, r.holder), a, offset, k + 1, c)

\* Parser::ParseShortArgs: the loop over the characters of the group, from
\* position k
ShortArgsLoop(R, a, offset, k, calls) ==
  LET arg == At(a, offset)
  IN  IF ~(k < Len(arg))
      THEN [R |-> R, step |-> 1, err |-> NoError, calls |-> calls]
      ELSE
      LET ch     == At(arg, k)
          holder == GetHolderByShortName(R, ch)
      IN  IF holder = nullptr
          THEN Throw(R, Error("Unknown short option", <<ch>>), calls)
          ELSE IF RequiresValue(Deref(R, holder))
          THEN IF k + 1 = Len(arg)
               THEN IF offset + 1 >= Len(a)
                    THEN Throw(R, Error("No value provided for a short option",
                                        <<ch>>), calls)
                    ELSE DeliverValue(R, offset, holder, At(a, offset + 1), 2, calls)
               ELSE IF k = 1 /\ Len(arg) > 2
               THEN DeliverValue(R, offset, holder, SubstrFrom(arg, 2), 1, calls)
               ELSE Throw(R, Error("Short option requiring an argument is not allowed in the middle of short options group", <<>>), calls)
          ELSE LET r == ProcessFlag(Deref(R, holder))
                   c == Append(calls, Call(offset, holder, "flag", <<>>))
               IN  IF Failed(r.err)
                   THEN Throw(Store(R, holder, r.holder), r.err, c)
                   ELSE ShortArgsLoop(Store(R, holder, r.holder), a, offset, k + 1, c)

\* ParseShortArgs passing over a group with an unknown character
ParseShortArgs_IgnoreUnknown(R, a, offset) ==
  LET res == ShortArgsLoop(R, a, offset, 1, <<>>)
  IN  IF res.err.msg = "Unknown short option"
      THEN [R |-> res.R, step |-> 1, err |-> NoError, calls |-> res.calls]
      ELSE res

\* Parser::ParseShortArgs
ParseShortArgs(R, a, offset) ==
  IF ~(Len(At(a, offset)) > 1 /\ At(At(a, offset), 0) = "-")
  THEN Throw(R, Error("Argparse internal assumptions failed", <<>>), <<>>)
  ELSE ShortArgsLoop(R, a, offset, 1, <<>>)

\* ------------------------------------------------------------------------
\* Construction
\* ------------------------------------------------------------------------

\* Parser::Parser, with the global registry as its first use creates it
Init ==
  /\ global_holders = EmptyHolders
  /\ holders_ = EmptyHolders
  /\ positionals_ = EmptyHolders
  /\ free_args_ = nullopt
  /\ tail_args_ = <<>>
  /\ parse_global_args_ = TRUE
  /\ pc = "declare"
  /\ args = <<>>
  /\ tail_mark = nullopt
  /\ i = 0
  /\ positional_arg_count = 0
  /\ err = NoError
  /\ log = <<>>
  /\ defaulted = EmptyMap

ScanVars == <<pc, args, tail_mark, i, positional_arg_count, log, tail_args_>>

\* ------------------------------------------------------------------------
\* Declarations
\* ------------------------------------------------------------------------

\* Parser::AddFlag / AddArg<Type> / AddMultiArg<Type>: the check against the
\* global registry, then the registration in holders_
ParserAdd(holder) ==
  LET chk == IF parse_global_args_
             THEN CheckOptionEntry(global_holders, holder.fullname_, holder.shortname_)
             ELSE NoError
  IN  IF Failed(chk) THEN [holders |-> holders_, err |-> chk]
      ELSE Holders_Add(holders_, holder)

ParserDeclare(holder) ==
  /\ holders_' = ParserAdd(holder).holders
  /\ err' = ParserAdd(holder).err
  /\ UNCHANGED <<global_holders, positionals_, free_args_, parse_global_args_,
                 ScanVars, defaulted>>

GlobalDeclare(holder) ==
  /\ global_holders' = Holders_Add(global_holders, holder).holders
  /\ err' = Holders_Add(global_holders, holder).err
  /\ UNCHANGED <<holders_, positionals_, free_args_, parse_global_args_, ScanVars,
                 defaulted>>

\* Parser::AddFlag(fullname, shortname)
Parser_AddFlag(Names) ==
  /\ pc = "declare"
  /\ \E d \in Names : ParserDeclare(NewFlagHolder(d[1], d[2]))

\* Parser::AddArg<Type>(fullname, shortname)
Parser_AddArg(Names) ==
  /\ pc = "declare"
  /\ \E d \in Names : ParserDeclare(NewArgHolder(d[1], d[2], d[3]))

\* Parser::AddMultiArg<Type>(fullname, shortname)
Parser_AddMultiArg(Names) ==
  /\ pc = "declare"
  /\ \E d \in Names : ParserDeclare(NewMultiArgHolder(d[1], d[2], d[3]))

\* argparse::AddGlobalFlag(fullname, shortname)
AddGlobalFlag(Names) ==
  /\ pc = "declare"
  /\ \E d \in Names : GlobalDeclare(NewFlagHolder(d[1], d[2]))

\* argparse::AddGlobalArg<Type>(fullname, shortname)
AddGlobalArg(Names) ==
  /\ pc = "declare"
  /\ \E d \in Names : GlobalDeclare(NewArgHolder(d[1], d[2], d[3]))

\* argparse::AddGlobalMultiArg<Type>(fullname, shortname)
AddGlobalMultiArg(Names) ==
  /\ pc = "declare"
  /\ \E d \in Names : GlobalDeclare(NewMultiArgHolder(d[1], d[2], d[3]))

\* Parser::AddPositionalArg<Type>()
AddPositionalArg(Types) ==
  /\ pc = "declare"
  /\ Size(positionals_) < MaxPositionals
  /\ \E type \in Types :
       LET r == Holders_Add(positionals_,
                            NewArgHolder(type,
                                         PositionalArgumentName(Size(positionals_)),
                                         NUL))
       IN  /\ positionals_' = r.holders
           /\ err' = r.err
  /\ UNCHANGED <<global_holders, holders_, free_args_, parse_global_args_, ScanVars,
                 defaulted>>

\* Parser::EnableFreeArgs
EnableFreeArgs ==
  /\ pc = "declare"
  /\ free_args_' = Some(<<>>)
  /\ err' = NoError
  /\ UNCHANGED <<global_holders, holders_, positionals_, parse_global_args_,
                 ScanVars, defaulted>>

\* Parser::IgnoreGlobalFlags
IgnoreGlobalFlags ==
  /\ pc = "declare"
  /\ parse_global_args_' = FALSE
  /\ err' = NoError
  /\ UNCHANGED <<global_holders, holders_, positionals_, free_args_, ScanVars,
                 defaulted>>

\* ------------------------------------------------------------------------
\* Configuration through the wrappers
\* ------------------------------------------------------------------------

\* every holder of the three registries
AllRefs ==
  {Ref("g", name) : name \in DOMAIN global_holders.holders_}
    \cup {Ref("l", name) : name \in DOMAIN holders_.holders_}
    \cup {Ref("p", name) : name \in DOMAIN positionals_.holders_}

\* the holders a wrapper of one of the given kinds points to
Wrappers(kinds) == {ref \in AllRefs : Deref(Regs, ref).kind \in kinds}

\* the effect of a wrapper call that returns r = [holder, err] for ref
Configure(ref, r) ==
  /\ pc = "declare"
  /\ global_holders' = Store(Regs, ref, r.holder).g
  /\ holders_' = Store(Regs, ref, r.holder).l
  /\ positionals_' = Store(Regs, ref, r.holder).p
  /\ err' = r.err
  /\ UNCHANGED <<free_args_, parse_global_args_, ScanVars>>

\* ArgHolderWrapper::Required / MultiArgHolderWrapper::Required
Required ==
  \E ref \in Wrappers({"arg", "multi"}) :
    /\ Configure(ref, set_required(Deref(Regs, ref), TRUE))
    /\ UNCHANGED defaulted

\* ArgHolderWrapper<Type>::Default(value)
Default(type, Values) ==
  \E ref \in Wrappers({"arg"}) : \E value \in Values :
    /\ Deref(Regs, ref).type = type
    /\ Configure(ref, set_value(Deref(Regs, ref), value))
    /\ defaulted' = IF Failed(set_value(Deref(Regs, ref), value).err)
                    THEN defaulted ELSE (ref :> value) @@ defaulted

\* MultiArgHolderWrapper<Type>::Default(values)
MultiDefault(type, Lists) ==
  \E ref \in Wrappers({"multi"}) : \E values \in Lists :
    /\ Deref(Regs, ref).type = type
    /\ Configure(ref, set_values(Deref(Regs, ref), values))
    /\ defaulted' = IF Failed(set_values(Deref(Regs, ref), values).err)
                    THEN defaulted ELSE (ref :> values) @@ defaulted

\* ArgHolderWrapper<Type>::Options / MultiArgHolderWrapper<Type>::Options
Options(type, Lists) ==
  \E ref \in Wrappers({"arg", "multi"}) : \E options \in Lists :
    /\ Deref(Regs, ref).type = type
    /\ Configure(ref, set_options(Deref(Regs, ref), options))
    /\ UNCHANGED defaulted

\* ------------------------------------------------------------------------
\* Parser::ParseArgs
\* ------------------------------------------------------------------------

\* args[0], the program name
bin == <<"b", "i", "n">>

\* the argument vectors over a set of tokens: the program name, then up to
\* MaxArgs tokens
ArgVectors(Tokens) ==
  {<<bin>> \o v : v \in UNION {[1..n -> Tokens] : n \in 0..MaxArgs}}

\* the loop condition that leaves the loop one token early
LoopTest_SkipLast(a, k) == IF k < Len(a) - 1 THEN "scan" ELSE "postcheck"

\* where the for loop goes with index k: into its body or past it
LoopTest(a, k) == IF k < Len(a) THEN "scan" ELSE "postcheck"

\* entry of ParseArgs, up to the first test of the loop condition
ParseArgs(Vectors, Marks) ==
  /\ pc = "declare"
  /\ \E a \in Vectors, mark \in Marks :
       /\ args' = a
       /\ tail_mark' = mark
       /\ pc' = LoopTest(a, 1)
  /\ i' = 1
  /\ positional_arg_count' = 0
  /\ err' = NoError
  /\ UNCHANGED <<global_holders, holders_, positionals_, free_args_, tail_args_,
                 parse_global_args_, log, defaulted>>

\* the end of a pass that swallows the error of the call and goes on with
\* the next token
FinishPass_Swallow(res) ==
  /\ global_holders' = res.R.g
  /\ holders_' = res.R.l
  /\ positionals_' = res.R.p
  /\ log' = log \o res.calls
  /\ err' = NoError
  /\ i' = i + (IF res.step > 0 THEN res.step ELSE 1)
  /\ pc' = LoopTest(args, i + (IF res.step > 0 THEN res.step ELSE 1))

\* the end of one pass through the loop body that called an option parser or
\* delivered a positional value: res is what the call returned or threw
FinishPass(res) ==
  /\ global_holders' = res.R.g
  /\ holders_' = res.R.l
  /\ positionals_' = res.R.p
  /\ log' = log \o res.calls
  /\ IF Failed(res.err)
     THEN /\ err' = res.err
          /\ pc' = "failed"
          /\ i' = i
     ELSE IF ~(res.step > 0)
     THEN /\ err' = Error("Argparse internal assumptions failed", <<>>)
          /\ pc' = "failed"
          /\ i' = i
     ELSE /\ err' = NoError
          /\ i' = i + res.step
          /\ pc' = LoopTest(args, i + res.step)

\* the test that never finds a positional slot left
SlotLeft_Never(H, count) == count < 0

\* positional_arg_count < positionals_.Size(): a positional slot is left
SlotLeft(H, count) == count < Size(H)

\* the lookup that always finds the first positional holder
PositionalHolder_First(H, count) ==
  Holders_GetHolderByFullName(H, "p", PositionalArgumentName(0))

\* positionals_.GetHolderByFullName(PositionalArgumentName(count)): the
\* holder of the positional slot number count
PositionalHolder(H, count) ==
  Holders_GetHolderByFullName(H, "p", PositionalArgumentName(count))

\* the copy that includes the tail mark in the tail
CopyTail_WithMark(a, k) == SubSeq(a, k + 1, Len(a))

\* std::copy(args.begin() + i + 1, args.end(), ...): the tokens after
\* position k
CopyTail(a, k) == SubSeq(a, k + 2, Len(a))

\* one pass through the body of the loop of ParseArgs
ScanStep ==
  /\ pc = "scan"
  /\ LET tok == At(args, i)
     IN  IF Some(tok) = tail_mark
         THEN /\ tail_args_' = tail_args_ \o CopyTail(args, i)
              /\ pc' = "postcheck"
              /\ UNCHANGED <<global_holders, holders_, positionals_, free_args_,
                             i, positional_arg_count, err, log>>
         ELSE IF Len(tok) > 2 /\ Substr(tok, 0, 2) = <<"-", "-">>
         THEN /\ FinishPass(ParseLongArg(Regs, args, i))
              /\ UNCHANGED <<free_args_, tail_args_, positional_arg_count>>
         ELSE IF Len(tok) > 1 /\ At(tok, 0) = "-"
         THEN /\ FinishPass(ParseShortArgs(Regs, args, i))
              /\ UNCHANGED <<free_args_, tail_args_, positional_arg_count>>
         ELSE IF SlotLeft(positionals_, positional_arg_count)
         THEN LET holder == PositionalHolder(positionals_, positional_arg_count)
              IN  /\ positional_arg_count' = positional_arg_count + 1
                  /\ IF holder = nullptr
                     THEN FinishPass(Throw(Regs,
                            Error("Argparse internal assumptions failed", <<>>), <<>>))
                     ELSE FinishPass(DeliverValue(Regs, i, holder,
                                                  EscapeValue(tok), 1, <<>>))
                  /\ UNCHANGED <<free_args_, tail_args_>>
         ELSE IF free_args_ = nullopt
         THEN /\ err' = Error("Free arguments are not enabled", <<>>)
              /\ pc' = "failed"
              /\ UNCHANGED <<global_holders, holders_, positionals_, free_args_,
                             tail_args_, i, positional_arg_count, log>>
         ELSE /\ free_args_' = Some(Append(free_args_[1], EscapeValue(tok)))
              /\ i' = i + 1
              /\ pc' = LoopTest(args, i + 1)
              /\ err' = NoError
              /\ UNCHANGED <<global_holders, holders_, positionals_, tail_args_,
                             positional_arg_count, log>>
  /\ UNCHANGED <<parse_global_args_, args, tail_mark, defaulted>>

\* the post-parse check that looks at the global registry whatever
\* parse_global_args_ says
PostParseErrors_GlobalAlways ==
  IF Holders_PerformPostParseCheck(global_holders) # {}
  THEN Holders_PerformPostParseCheck(global_holders)
  ELSE IF Holders_PerformPostParseCheck(holders_) # {}
  THEN Holders_PerformPostParseCheck(holders_)
  ELSE Holders_PerformPostParseCheck(positionals_)

\* Parser::PerformPostParseCheck: the errors it can throw, the registries
\* being checked in the order global (when merged), named, positional
PostParseErrors ==
  IF parse_global_args_ /\ Holders_PerformPostParseCheck(global_holders) # {}
  THEN Holders_PerformPostParseCheck(global_holders)
  ELSE IF Holders_PerformPostParseCheck(holders_) # {}
  THEN Holders_PerformPostParseCheck(holders_)
  ELSE Holders_PerformPostParseCheck(positionals_)

\* the call of PerformPostParseCheck that ends ParseArgs
PerformPostParseCheck ==
  /\ pc = "postcheck"
  /\ IF PostParseErrors = {}
     THEN /\ pc' = "done"
          /\ err' = NoError
     ELSE /\ pc' = "failed"
          /\ err' \in PostParseErrors
  /\ UNCHANGED <<global_holders, holders_, positionals_, free_args_, tail_args_,
                 parse_global_args_, args, tail_mark, i, positional_arg_count, log,
                 defaulted>>

\* ------------------------------------------------------------------------
\* Names, tokens and values the specifications draw their inputs from
\* ------------------------------------------------------------------------

\* the options the specifications declare: flags fl (-a) and ve (-v), the
\* single-value arguments in (-b) and, in the global registry, gi (-g), the
\* multi-value argument mu (-c)
fl == <<"f", "l">>

ve == <<"v", "e">>

in == <<"i", "n">>

gi == <<"g", "i">>

mu == <<"m", "u">>

Long(name) == <<"-", "-">> \o name

LongEq(name, value) == <<"-", "-">> \o name \o <<"=">> \o value

Short(chars) == <<"-">> \o chars

\* ------------------------------------------------------------------------
\* What an argument vector says, read off its tokens alone: the options it
\* mentions, in order, each with the value string it is given.  A token that
\* is the value of the option before it mentions nothing, and nothing is read
\* from the tail mark on.
\* ------------------------------------------------------------------------

\* the options that take a value, by full name and by short name
ValueLongs == {in, gi, mu}

ValueShorts == {"b", "g", "c"}

\* the full name behind a short name
LongOfShort(ch) ==
  CASE ch = "a" -> fl [] ch = "v" -> ve [] ch = "b" -> in [] ch = "g" -> gi
    [] ch = "c" -> mu [] OTHER -> <<ch>>

Mention(opt, val) == [opt |-> opt, val |-> val]

\* the token after position k, if there is one
NextToken(a, k) == IF k + 1 < Len(a) THEN Some(At(a, k + 1)) ELSE nullopt

\* the flags a run of short characters mentions
FlagMentions(chars) ==
  [j \in 1..Len(chars) |-> Mention(LongOfShort(chars[j]), nullopt)]

RECURSIVE Mentions(_, _, _)
\* the mentions made by the tokens of a from position k on
Mentions(a, mark, k) ==
  IF k >= Len(a) \/ Some(At(a, k)) = mark
  THEN <<>>
  ELSE
  LET tok == At(a, k)
      n   == Len(tok)
  IN  IF n > 2 /\ tok[1] = "-" /\ tok[2] = "-"
      THEN LET body == SubstrFrom(tok, 2)
               eq   == Find(body, "=")
           IN  IF eq # npos
               THEN <<Mention(Substr(body, 0, eq), Some(SubstrFrom(body, eq + 1)))>>
                      \o Mentions(a, mark, k + 1)
               ELSE IF body \in ValueLongs
               THEN <<Mention(body, NextToken(a, k))>> \o Mentions(a, mark, k + 2)
               ELSE <<Mention(body, nullopt)>> \o Mentions(a, mark, k + 1)
      ELSE IF n > 1 /\ tok[1] = "-"
      THEN IF n > 2 /\ tok[2] \in ValueShorts
           THEN <<Mention(LongOfShort(tok[2]), Some(SubstrFrom(tok, 2)))>>
                  \o Mentions(a, mark, k + 1)
           ELSE IF tok[n] \in ValueShorts
           THEN FlagMentions(SubSeq(tok, 2, n - 1))
                  \o <<Mention(LongOfShort(tok[n]), NextToken(a, k))>>
                  \o Mentions(a, mark, k + 2)
           ELSE FlagMentions(SubSeq(tok, 2, n)) \o Mentions(a, mark, k + 1)
      ELSE Mentions(a, mark, k + 1)

\* the mentions of the option called name
MentionsOf(name) ==
  SelectSeq(Mentions(args, tail_mark, 1), LAMBDA m : m.opt = name)

\* the value strings given to the option called name, in order
TokensFor(name) == [k \in 1..Len(MentionsOf(name)) |-> MentionsOf(name)[k].val[1]]

\* the values a sequence of value strings casts to
CastAll(type, strs) == [k \in 1..Len(strs) |-> DefaultCaster(type, strs[k])[1]]

\* ------------------------------------------------------------------------
\* SpecConfig: the configuration calls on a single-value and a multi-value
\* argument, in any order and number, then a short parse
\* ------------------------------------------------------------------------

ConfigDefaults == {1, 5}

ConfigDefaultLists == {<<>>, <<5>>, <<1, 5>>}

ConfigOptionLists == {<<>>, <<1, 2>>}

NextConfig ==
  \/ Parser_AddArg({<<"int", in, "b">>})
  \/ Parser_AddMultiArg({<<"int", mu, "c">>})
  \/ Required
  \/ Default("int", ConfigDefaults)
  \/ MultiDefault("int", ConfigDefaultLists)
  \/ Options("int", ConfigOptionLists)
  \/ ParseArgs(ArgVectors({LongEq(in, <<"1">>), LongEq(mu, <<"5">>)}), {nullopt})
  \/ ScanStep
  \/ PerformPostParseCheck

SpecConfig == Init /\ [][NextConfig]_vars

\* ------------------------------------------------------------------------
\* Claims checked under SpecConfig
\* ------------------------------------------------------------------------

\* the value v is one of the elements of the list
Member(v, list) == \E k \in 1..Len(list) : list[k] = v

\* the registries are left as they were
SameHolders == Regs' = Regs

\* C1 as stated: before ParseArgs no holder is both marked required and the
\* target of a successful Default(...) call, whatever the default value or
\* default list was.
C1_NoRequiredAfterAnyDefault ==
  pc = "declare" =>
    \A ref \in AllRefs : ~(Deref(Regs, ref).required_ /\ ref \in DOMAIN defaulted)

\* C1 (amended): before ParseArgs no holder is both marked required and in
\* possession of a default value; Default(...) on a required holder fails with
\* "Required argument can't have a default value" for every value and every
\* list (the empty one included); Required() on a holder that has a default
\* value (a multi-value holder: a non-empty default list) fails with
\* "Argument with a default value can't be required"; a failed call leaves
\* the holders as they were.
C1_RequiredExcludesDefault ==
  [][/\ pc' = "declare" =>
          \A ref \in AllRefs' :
            ~(Deref(Regs', ref).required_ /\ HasValue(Deref(Regs', ref)))
     /\ \A ref \in Wrappers({"arg"}) : \A value \in ConfigDefaults :
          (/\ Deref(Regs, ref).required_
           /\ Configure(ref, set_value(Deref(Regs, ref), value)))
            => (/\ err'.msg = "Required argument can't have a default value"
                /\ SameHolders)
     /\ \A ref \in Wrappers({"multi"}) : \A values \in ConfigDefaultLists :
          (/\ Deref(Regs, ref).required_
           /\ Configure(ref, set_values(Deref(Regs, ref), values)))
            => (/\ err'.msg = "Required argument can't have a default value"
                /\ SameHolders)
     /\ \A ref \in Wrappers({"arg", "multi"}) :
          (/\ HasValue(Deref(Regs, ref))
           /\ Configure(ref, set_required(Deref(Regs, ref), TRUE)))
            => (/\ err'.msg = "Argument with a default value can't be required"
                /\ SameHolders)
    ]_vars

\* C1 witness: Required() has just been refused on a multi-value holder that
\* holds a default list, and a single-value holder is required
C1_Witness ==
  /\ pc = "declare"
  /\ err.msg = "Argument with a default value can't be required"
  /\ \E ref \in Wrappers({"multi"}) :
       Deref(Regs, ref).values_ = <<1, 5>> /\ ~Deref(Regs, ref).required_
  /\ \E ref \in Wrappers({"arg"}) : Deref(Regs, ref).required_

\* C7 as stated: before ParseArgs, a holder that has both an options list and
\* a default holds only default values that are members of the options list.
C7_DefaultWithinOptions ==
  pc = "declare" =>
    \A ref \in Wrappers({"arg", "multi"}) :
      LET h == Deref(Regs, ref)
      IN  h.options_ # nullopt =>
            IF h.kind = "arg"
            THEN h.value_ = nullopt \/ Member(h.value_[1], h.options_[1])
            ELSE \A k \in 1..Len(h.values_) : Member(h.values_[k], h.options_[1])

\* ------------------------------------------------------------------------
\* SpecValues: a single-value and a multi-value integer argument, with or
\* without a default and an options list, parsed from vectors that give them
\* values in every form
\* ------------------------------------------------------------------------

ValueTokens ==
  {Long(in), LongEq(in, <<"5">>), Short(<<"b", "1">>),
   Long(mu), LongEq(mu, <<"2">>), Short(<<"c">>), Short(<<"c", "5">>),
   <<"1">>, <<"x">>}

NextValues ==
  \/ Parser_AddArg({<<"int", in, "b">>})
  \/ Parser_AddMultiArg({<<"int", mu, "c">>})
  \/ Default("int", {5})
  \/ MultiDefault("int", {<<5, 1>>})
  \/ Options("int", {<<1, 2>>})
  \/ ParseArgs(ArgVectors(ValueTokens), {nullopt})
  \/ ScanStep
  \/ PerformPostParseCheck

SpecValues == Init /\ [][NextValues]_vars

\* ------------------------------------------------------------------------
\* Claims checked under SpecValues
\* ------------------------------------------------------------------------

\* the number of mentions of the option called name made before position k
MentionsBefore(name, k) ==
  LET all  == Mentions(args, tail_mark, 1)
      seen == SubSeq(all, 1, Len(all) - Len(Mentions(args, tail_mark, k)))
  IN  Len(SelectSeq(seen, LAMBDA m : m.opt = name))

\* the default a holder was configured with, if any
DefaultOf(ref) == IF ref \in DOMAIN defaulted THEN Some(defaulted[ref]) ELSE nullopt

\* the holder calls the step makes
NewCalls == SubSeq(log', Len(log) + 1, Len(log'))

\* the step ends by delivering a value string to the holder ref
Delivers(ref) ==
  /\ NewCalls # <<>>
  /\ NewCalls[Len(NewCalls)].op = "value"
  /\ NewCalls[Len(NewCalls)].ref = ref

Delivered == NewCalls[Len(NewCalls)].str

\* C2 as stated: ParseArgs does not succeed on a vector in which two tokens
\* target the same single-value argument (it fails at the second one with
\* "Argument accepts only one value").
C2_SecondValueRejected ==
  pc = "done" =>
    \A ref \in Wrappers({"arg"}) : Len(MentionsOf(ref.name)) <= 1

\* C3: after a successful ParseArgs the sequence of a multi-value argument is
\* the cast values of the tokens that targeted it, in the order of the
\* vector, with nothing of a configured default list left; when no token
\* targeted it, the sequence is the default list (empty without a default).
C3_MultiValueSequence ==
  pc = "done" =>
    \A ref \in Wrappers({"multi"}) :
      LET h    == Deref(Regs, ref)
          toks == TokensFor(ref.name)
      IN  h.values_ = IF Len(toks) > 0 THEN CastAll(h.type, toks)
                      ELSE IF DefaultOf(ref) # nullopt THEN DefaultOf(ref)[1]
                      ELSE <<>>

\* C3 witness: a successful parse gave the values 2 and 1, in two forms, to
\* a multi-value argument whose default list was <<5, 1>>
C3_Witness ==
  /\ pc = "done"
  /\ args = <<bin, LongEq(mu, <<"2">>), Short(<<"c">>), <<"1">>>>
  /\ DefaultOf(Ref("l", mu)) = Some(<<5, 1>>)
  /\ Deref(Regs, Ref("l", mu)).values_ = <<2, 1>>

\* C4: after a successful ParseArgs a single-value argument that no token
\* targeted holds its default, or nothing when it has no default, and one
\* that exactly one token targeted holds the cast of that token; a parse never
\* fails with "Argument accepts only one value" at the first token that
\* targets an argument.
C4_SingleValue ==
  /\ pc = "done" =>
       \A ref \in Wrappers({"arg"}) :
         LET h    == Deref(Regs, ref)
             toks == TokensFor(ref.name)
         IN  /\ Len(toks) = 0 => h.value_ = DefaultOf(ref)
             /\ Len(toks) = 1 => h.value_ = DefaultCaster(h.type, toks[1])
  /\ (pc = "failed" /\ err.msg = "Argument accepts only one value")
       => MentionsBefore(err.subject, i) >= 1

\* C4 witness: a successful parse replaced the default 5 of a single-value
\* argument by the value of the one token that targeted it
C4_Witness ==
  /\ pc = "done"
  /\ DefaultOf(Ref("l", in)) = Some(5)
  /\ TokensFor(in) = <<<<"1">>>>
  /\ Deref(Regs, Ref("l", in)).value_ = Some(1)

\* C8: a value string delivered to an argument that has an options list, and
\* that casts to a value, is accepted iff the value is an element of the
\* list: a member is stored; a non-member fails the parse with "Provided
\* argument string casts to an illegal value" and is not stored.  A parse
\* that ends with an argument that has options, no default and no token
\* targeting it leaves that argument without a value.
C8_OptionsMembership ==
  [][/\ pc = "scan" =>
          \A ref \in Wrappers({"arg", "multi"}) :
            LET h     == Deref(Regs, ref)
                h2    == Deref(Regs', ref)
                value == DefaultCaster(h.type, Delivered)
                kept  == IF h.contains_default_ THEN <<>> ELSE h.values_
            IN  (h.options_ # nullopt /\ Delivers(ref) /\ value # nullopt) =>
                  IF Member(value[1], h.options_[1])
                  THEN /\ err' = NoError
                       /\ h.kind = "arg" => h2.value_ = value
                       /\ h.kind = "multi" => h2.values_ = Append(kept, value[1])
                  ELSE /\ pc' = "failed"
                       /\ err'.msg = "Provided argument string casts to an illegal value"
                       /\ h.kind = "arg" => h2.value_ = h.value_
                       /\ h.kind = "multi" => h2.values_ = kept
     /\ pc' = "done" =>
          \A ref \in Wrappers({"arg", "multi"}) :
            (/\ Deref(Regs, ref).options_ # nullopt
             /\ DefaultOf(ref) = nullopt
             /\ MentionsOf(ref.name) = <<>>) => ~HasValue(Deref(Regs', ref))
    ]_vars

\* C8 witness: with the options 1 and 2, a multi-value argument stored the
\* member 2 and the parse then failed on the non-member 5
C8_Witness ==
  /\ pc = "failed"
  /\ err.msg = "Provided argument string casts to an illegal value"
  /\ Ref("l", mu) \in AllRefs
  /\ Deref(Regs, Ref("l", mu)).options_ = Some(<<1, 2>>)
  /\ Deref(Regs, Ref("l", mu)).values_ = <<2>>
  /\ log[Len(log)].str = <<"5">>

\* ------------------------------------------------------------------------
\* SpecShort: two flags and a single-value argument (integer or string),
\* parsed from vectors of long options and short groups
\* ------------------------------------------------------------------------

ShortTokens ==
  {Long(fl), Short(<<"a", "a">>), Short(<<"a", "v", "b">>), Short(<<"b", "a">>),
   Long(in), Short(<<"b">>), <<"4", "2">>}

NextShort ==
  \/ Parser_AddFlag({<<fl, "a">>, <<ve, "v">>})
  \/ Parser_AddArg({<<"int", in, "b">>, <<"string", in, "b">>})
  \/ ParseArgs(ArgVectors(ShortTokens), {nullopt})
  \/ ScanStep
  \/ PerformPostParseCheck

SpecShort == Init /\ [][NextShort]_vars

\* ------------------------------------------------------------------------
\* Claims checked under SpecShort
\* ------------------------------------------------------------------------

\* a token ParseArgs hands to ParseShortArgs
IsShortGroup(tok) ==
  Len(tok) > 1 /\ tok[1] = "-" /\ ~(Len(tok) > 2 /\ tok[2] = "-")

\* the number of times the character ch occurs in the sequence chars
Occurrences(ch, chars) == Cardinality({j \in 1..Len(chars) : chars[j] = ch})

RECURSIVE Sum(_, _)
\* the sum of f[1] .. f[n]
Sum(f, n) == IF n = 0 THEN 0 ELSE Sum(f, n - 1) + f[n]

\* the occurrences of a flag in a vector, token by token: the tokens --name,
\* and the characters short in the short groups
LiteralCount(a, name, short) ==
  Sum([k \in 1..(Len(a) - 1) |->
         IF a[k + 1] = Long(name) THEN 1
         ELSE IF IsShortGroup(a[k + 1])
         THEN Occurrences(short, SubSeq(a[k + 1], 2, Len(a[k + 1])))
         ELSE 0],
      Len(a) - 1)

\* C5 as stated: after a successful ParseArgs the count of a flag is the
\* number of its occurrences in the argument vector, each --name token and
\* each occurrence of its short character in a short group counting once.
C5_CountsEveryOccurrence ==
  pc = "done" =>
    \A ref \in Wrappers({"flag"}) :
      Deref(Regs, ref).value_ =
        LiteralCount(args, ref.name, Deref(Regs, ref).shortname_)

\* C5 (amended): after a successful ParseArgs the count of a flag is the
\* number of times the vector mentions it as an option, by a --name token or
\* by its short character in a group of flags; a token that is the value of
\* the option before it, and the characters after a value-requiring first
\* character of a group, are no mentions.  A flag never mentioned reads 0.
C5_CountsMentions ==
  pc = "done" =>
    \A ref \in Wrappers({"flag"}) :
      Deref(Regs, ref).value_ = Len(MentionsOf(ref.name))

\* C5 witness: a successful parse counted a flag twice, from one short
\* group, and did not count the --fl token that was the value of --in
C5_Witness ==
  /\ pc = "done"
  /\ args = <<bin, Long(in), Long(fl), Short(<<"a", "a">>)>>
  /\ Deref(Regs, Ref("l", fl)).value_ = 2
  /\ Deref(Regs, Ref("l", in)).value_ = Some(Long(fl))

\* C9: when the scan is at a short group whose last character is a declared
\* value-requiring option and whose other characters are declared flags, it
\* calls ProcessFlag once for each of those characters and then delivers the
\* next token to the last option; each flag grows by the number of its
\* characters, and when the value is accepted the option holds its cast and
\* the scan goes on two tokens further.  When the group is the last token
\* the parse fails with "No value provided for a short option".
C9_GroupEndingInValueOption ==
  [][LET tok    == At(args, i)
         chars  == SubSeq(tok, 2, Len(tok))
         n      == Len(chars)
         hold   == [j \in 1..n |-> GetHolderByShortName(Regs, chars[j])]
         flagsN == [j \in 1..n |-> IF j < n THEN 1 ELSE 0]
     IN  (/\ pc = "scan"
          /\ IsShortGroup(tok)
          /\ \A j \in 1..n : hold[j] # nullptr
          /\ \A j \in 1..n : RequiresValue(Deref(Regs, hold[j])) <=> j = n)
          =>
          IF i + 1 < Len(args)
          THEN /\ NewCalls =
                    [j \in 1..n |->
                       IF j < n THEN Call(i, hold[j], "flag", <<>>)
                       ELSE Call(i, hold[j], "value", At(args, i + 1))]
               /\ \A ref \in Wrappers({"flag"}) :
                    Deref(Regs', ref).value_ =
                      Deref(Regs, ref).value_
                        + Cardinality({j \in 1..(n - 1) : hold[j] = ref})
               /\ IF err' = NoError
                  THEN /\ i' = i + 2
                       /\ Deref(Regs', hold[n]).value_ =
                            DefaultCaster(Deref(Regs, hold[n]).type, At(args, i + 1))
                  ELSE pc' = "failed" /\ i' = i
          ELSE /\ pc' = "failed"
               /\ err' = Error("No value provided for a short option", <<chars[n]>>)
    ]_vars

\* C9 witness: the parse of -avb 42 ended with both flags at 1 and the
\* integer argument at 42
C9_Witness ==
  /\ pc = "done"
  /\ args = <<bin, Short(<<"a", "v", "b">>), <<"4", "2">>>>
  /\ Deref(Regs, Ref("l", fl)).value_ = 1
  /\ Deref(Regs, Ref("l", ve)).value_ = 1
  /\ Deref(Regs, Ref("l", in)).value_ = Some(42)

\* C10 as stated: with the flag -a and the integer argument -b declared,
\* ParseArgs on -ba 42 fails, and the error is "Short option requiring an
\* argument is not allowed in the middle of short options group".
C10_MidGroupError ==
  (/\ pc \in {"done", "failed"}
   /\ args = <<bin, Short(<<"b", "a">>), <<"4", "2">>>>
   /\ Ref("l", fl) \in AllRefs
   /\ Ref("l", in) \in AllRefs
   /\ Deref(Regs, Ref("l", in)).type = "int")
    => (/\ pc = "failed"
        /\ err.msg = "Short option requiring an argument is not allowed in the middle of short options group")

\* ------------------------------------------------------------------------
\* SpecRequired: a named, a positional and a global integer argument, each
\* of which may be marked required, parsed with or without the global
\* registry, free arguments and a tail mark
\* ------------------------------------------------------------------------

TailMark == <<"-", "-">>

RequiredTokens == {LongEq(in, <<"1">>), LongEq(gi, <<"1">>), <<"1">>, TailMark}

NextRequired ==
  \/ Parser_AddArg({<<"int", in, "b">>})
  \/ AddPositionalArg({"int"})
  \/ AddGlobalArg({<<"int", gi, "g">>})
  \/ Required
  \/ IgnoreGlobalFlags
  \/ EnableFreeArgs
  \/ ParseArgs(ArgVectors(RequiredTokens), {nullopt, Some(TailMark)})
  \/ ScanStep
  \/ PerformPostParseCheck

SpecRequired == Init /\ [][NextRequired]_vars

\* ------------------------------------------------------------------------
\* Claims checked under SpecRequired
\* ------------------------------------------------------------------------

\* the holders the post-parse check looks at that are required and have no
\* value
RequiredWithoutValue ==
  {ref \in AllRefs :
     /\ ref.reg = "g" => parse_global_args_
     /\ Deref(Regs, ref).required_
     /\ ~HasValue(Deref(Regs, ref))}

\* C6 as stated: when the scan is over (at the end of the vector or at the
\* tail mark) and a required holder of the named registry, of the
\* positional registry or, with merging on, of the global registry has no
\* value, ParseArgs fails with "No value provided for option" and the name of
\* such a holder; so after a successful ParseArgs every required holder has
\* a value.
C6_NoValueProvided ==
  [][/\ (pc = "postcheck" /\ RequiredWithoutValue # {}) =>
          (/\ pc' = "failed"
           /\ err'.msg = "No value provided for option"
           /\ err'.subject \in {ref.name : ref \in RequiredWithoutValue})
     /\ pc' = "done" => RequiredWithoutValue' = {}
    ]_vars

LongTokens ==
  {Long(in), LongEq(in, <<>>), LongEq(in, <<"-", "=">>),
   Long(fl), LongEq(fl, <<>>), Short(<<"a">>), TailMark}

NextLong ==
  \/ Parser_AddFlag({<<fl, "a">>})
  \/ Parser_AddArg({<<"string", in, "b">>})
  \/ ParseArgs(ArgVectors(LongTokens), {nullopt, Some(TailMark)})
  \/ ScanStep
  \/ PerformPostParseCheck

SpecLong == Init /\ [][NextLong]_vars

\* ------------------------------------------------------------------------
\* Claims checked under SpecLong
\* ------------------------------------------------------------------------

\* a token ParseArgs hands to ParseLongArg
IsLongOption(tok) == Len(tok) > 2 /\ tok[1] = "-" /\ tok[2] = "-"

\* the positions of the character ch in the string s (from 1)
Positions(s, ch) == {p \in 1..Len(s) : s[p] = ch}

\* the step changes no holder but ref
OnlyChanges(ref) == \A other \in AllRefs \ {ref} : Deref(Regs', other) = Deref(Regs, other)

\* C12: when the scan is at --name, without "=", of a declared
\* value-requiring option and a token follows, that token goes to the option
\* as it is - whether it starts with dashes, names an option or equals the
\* tail mark - and is not scanned: it reaches no other holder, nor the free
\* or the tail arguments, and the scan goes on two tokens further.  When
\* nothing follows, the parse fails with "No value provided for a long
\* option".
C12_LongOptionTakesNextToken ==
  [][LET tok  == At(args, i)
         name == SubSeq(tok, 3, Len(tok))
         hold == GetHolderByFullName(Regs, name)
     IN  (/\ pc = "scan"
          /\ Some(tok) # tail_mark
          /\ IsLongOption(tok)
          /\ Positions(tok, "=") = {}
          /\ hold # nullptr
          /\ RequiresValue(Deref(Regs, hold)))
          =>
          IF i + 1 < Len(args)
          THEN /\ NewCalls = <<Call(i, hold, "value", At(args, i + 1))>>
               /\ OnlyChanges(hold)
               /\ free_args_' = free_args_ /\ tail_args_' = tail_args_
               /\ IF err' = NoError
                  THEN /\ i' = i + 2
                       /\ Deref(Regs', hold).value_ =
                            DefaultCaster(Deref(Regs, hold).type, At(args, i + 1))
                  ELSE pc' = "failed" /\ i' = i
          ELSE /\ pc' = "failed"
               /\ err' = Error("No value provided for a long option", name)
               /\ SameHolders
    ]_vars

\* C12 witness: with the tail mark "--" configured, --in took the token "--"
\* as its value; the token after it was scanned as the option --fl and the
\* tail stayed empty
C12_Witness ==
  /\ pc = "done"
  /\ tail_mark = Some(TailMark)
  /\ args = <<bin, Long(in), TailMark, Long(fl)>>
  /\ Deref(Regs, Ref("l", in)).value_ = Some(TailMark)
  /\ Deref(Regs, Ref("l", fl)).value_ = 1
  /\ tail_args_ = <<>>

\* C13: when the scan is at a token --name=value, where name is the text
\* between "--" and the first "=" and names a declared value-requiring
\* option, everything after that "=" - empty, or holding further "=" and
\* dashes - goes to the option as one value; nothing else changes and the
\* scan goes on with the very next token.
C13_SplitAtFirstEquals ==
  [][LET tok   == At(args, i)
         first == CHOOSE p \in Positions(tok, "=") :
                    \A q \in Positions(tok, "=") : p <= q
         name  == SubSeq(tok, 3, first - 1)
         value == SubSeq(tok, first + 1, Len(tok))
         hold  == GetHolderByFullName(Regs, name)
     IN  (/\ pc = "scan"
          /\ Some(tok) # tail_mark
          /\ IsLongOption(tok)
          /\ Positions(tok, "=") # {}
          /\ hold # nullptr
          /\ RequiresValue(Deref(Regs, hold)))
          =>
          /\ NewCalls = <<Call(i, hold, "value", value)>>
          /\ OnlyChanges(hold)
          /\ free_args_' = free_args_ /\ tail_args_' = tail_args_
          /\ IF err' = NoError
             THEN /\ i' = i + 1
                  /\ Deref(Regs', hold).value_ =
                       DefaultCaster(Deref(Regs, hold).type, value)
             ELSE pc' = "failed" /\ i' = i
    ]_vars

\* C13 witness: --in=-= gave the string argument the value "-=", and the
\* token after it was scanned as the option --fl
C13_Witness ==
  /\ pc = "done"
  /\ args = <<bin, LongEq(in, <<"-", "=">>), Long(fl)>>
  /\ Deref(Regs, Ref("l", in)).value_ = Some(<<"-", "=">>)
  /\ Deref(Regs, Ref("l", fl)).value_ = 1

\* C14: a flag takes no value.  At --name=value with name a declared flag
\* (the value may be empty) the parse fails with "Long option doesn't require
\* a value", no holder is called and none changes.  At --name, and at a
\* short group of declared flags, the flags are counted, once for each
\* mention, and the scan goes on with the very next token.  A flag holder
\* answers HasValue() with true in every state.
C14_FlagTakesNoValue ==
  [][LET tok   == At(args, i)
         first == CHOOSE p \in Positions(tok, "=") :
                    \A q \in Positions(tok, "=") : p <= q
         name  == IF Positions(tok, "=") = {} THEN SubSeq(tok, 3, Len(tok))
                  ELSE SubSeq(tok, 3, first - 1)
         hold  == GetHolderByFullName(Regs, name)
         chars == SubSeq(tok, 2, Len(tok))
         holds == [j \in 1..Len(chars) |-> GetHolderByShortName(Regs, chars[j])]
     IN  /\ (/\ pc = "scan"
             /\ Some(tok) # tail_mark
             /\ IsLongOption(tok)
             /\ hold # nullptr
             /\ Deref(Regs, hold).kind = "flag")
             =>
             IF Positions(tok, "=") # {}
             THEN /\ pc' = "failed"
                  /\ err' = Error("Long option doesn't require a value", name)
                  /\ NewCalls = <<>>
                  /\ SameHolders
             ELSE /\ NewCalls = <<Call(i, hold, "flag", <<>>)>>
                  /\ Deref(Regs', hold).value_ = Deref(Regs, hold).value_ + 1
                  /\ OnlyChanges(hold)
                  /\ i' = i + 1
                  /\ err' = NoError
         /\ (/\ pc = "scan"
             /\ Some(tok) # tail_mark
             /\ IsShortGroup(tok)
             /\ \A j \in 1..Len(chars) :
                  holds[j] # nullptr /\ Deref(Regs, holds[j]).kind = "flag")
             =>
             /\ NewCalls = [j \in 1..Len(chars) |-> Call(i, holds[j], "flag", <<>>)]
             /\ \A ref \in Wrappers({"flag"}) :
                  Deref(Regs', ref).value_ =
                    Deref(Regs, ref).value_
                      + Cardinality({j \in 1..Len(chars) : holds[j] = ref})
             /\ i' = i + 1
             /\ err' = NoError
         /\ \A ref \in AllRefs' :
              Deref(Regs', ref).kind = "flag" => HasValue(Deref(Regs', ref))
    ]_vars

\* C14 witness: --fl counted the flag once, and the parse then failed on
\* --fl= without counting it again
C14_Witness ==
  /\ pc = "failed"
  /\ err = Error("Long option doesn't require a value", fl)
  /\ args = <<bin, Long(fl), LongEq(fl, <<>>)>>
  /\ Deref(Regs, Ref("l", fl)).value_ = 1

\* ------------------------------------------------------------------------
\* SpecPlain: a flag, a single-value string argument and up to
\* MaxPositionals positional string arguments, with or without free
\* arguments and the tail mark, parsed from vectors that mix options with
\* plain and backslash-escaped tokens
\* ------------------------------------------------------------------------

Escaped(tok) == <<"\\">> \o tok

PlainTokens ==
  {<<"x">>, Escaped(Long(fl)), Escaped(<<"\\">>), Long(in),
   LongEq(in, Escaped(<<"x">>)), Long(fl), TailMark}

NextPlain ==
  \/ Parser_AddFlag({<<fl, "a">>})
  \/ Parser_AddArg({<<"string", in, "b">>})
  \/ AddPositionalArg({"string"})
  \/ EnableFreeArgs
  \/ ParseArgs(ArgVectors(PlainTokens), {nullopt, Some(TailMark)})
  \/ ScanStep
  \/ PerformPostParseCheck

SpecPlain == Init /\ [][NextPlain]_vars

\* ------------------------------------------------------------------------
\* Claims checked under SpecPlain
\* ------------------------------------------------------------------------

\* the number of tokens the option token at position k of a stands for:
\* itself, and the next token when that is its value
OptionWidth(a, k) ==
  LET tok == At(a, k)
      n   == Len(tok)
  IN  IF IsLongOption(tok)
      THEN IF Positions(tok, "=") = {} /\ SubSeq(tok, 3, n) \in ValueLongs
           THEN 2 ELSE 1
      ELSE IF n > 2 /\ tok[2] \in ValueShorts THEN 1
      ELSE IF tok[n] \in ValueShorts THEN 2
      ELSE 1

RECURSIVE Plain(_, _, _)
\* the tokens of a from position k on, up to the tail mark, that are neither
\* options nor values of options
Plain(a, mark, k) ==
  IF k >= Len(a) \/ Some(At(a, k)) = mark
  THEN <<>>
  ELSE IF IsLongOption(At(a, k)) \/ IsShortGroup(At(a, k))
  THEN Plain(a, mark, k + OptionWidth(a, k))
  ELSE <<At(a, k)>> \o Plain(a, mark, k + 1)

\* a token without its leading backslash, if it has one
Unescaped(tok) == IF Len(tok) > 0 /\ tok[1] = "\\" THEN Tail(tok) ELSE tok

\* the number of positional arguments declared
Declared == Cardinality(DOMAIN positionals_.holders_)

\* the holder of the positional argument declared k-th, counting from 0
Positional(k) == Ref("p", <<"__positional_argument__">> \o to_string(k))

\* the calls made so far on the holder ref
CallsOn(ref) == SelectSeq(log, LAMBDA c : c.ref = ref)

\* C15: after a successful ParseArgs the positional argument declared k-th
\* holds the k-th token of the vector that is neither an option nor the value
\* of an option (without its escaping backslash), however many options stand
\* between those tokens, and holds nothing when there is no such token; when
\* there are more such tokens than positional arguments, free arguments are
\* enabled.  No positional holder is ever given more than one token.
C15_PositionalsInOrder ==
  /\ pc = "done" =>
       LET plain == Plain(args, tail_mark, 1)
       IN  /\ \A k \in 0..(Declared - 1) :
                Deref(Regs, Positional(k)).value_ =
                  IF k < Len(plain) THEN Some(Unescaped(plain[k + 1])) ELSE nullopt
           /\ Len(plain) > Declared => free_args_ # nullopt
  /\ \A k \in 0..(Declared - 1) : Len(CallsOn(Positional(k))) <= 1

\* C15 witness: with two positional arguments, x and the escaped --fl were
\* bound in order around the option --fl
C15_Witness ==
  /\ pc = "done"
  /\ Declared = 2
  /\ args = <<bin, <<"x">>, Long(fl), Escaped(Long(fl))>>
  /\ Deref(Regs, Positional(0)).value_ = Some(<<"x">>)
  /\ Deref(Regs, Positional(1)).value_ = Some(Long(fl))
  /\ Deref(Regs, Ref("l", fl)).value_ = 1

PlainBefore(k) == Len(Plain(args, tail_mark, 1)) - Len(Plain(args, tail_mark, k))

C18_TailMarkStopsScan ==
  [][/\ (pc = "scan" /\ Some(At(args, i)) = tail_mark) =>
          /\ pc' = "postcheck"
          /\ tail_args_' = [k \in 1..(Len(args) - 1 - i) |-> At(args, i + k)]
          /\ NewCalls = <<>>
          /\ SameHolders
          /\ free_args_' = free_args_
     /\ pc = "postcheck" =>
          /\ pc' \in {"done", "failed"}
          /\ log' = log
          /\ SameHolders
          /\ free_args_' = free_args_
          /\ tail_args_' = tail_args_
     /\ tail_mark' = nullopt => tail_args_' = <<>>
    ]_vars

\* C18 witness: with the tail mark "--", the flag was counted once, for
\* the --fl before the mark, and the --fl after the mark is the tail
C18_Witness ==
  /\ pc = "done"
  /\ tail_mark = Some(TailMark)
  /\ args = <<bin, Long(fl), TailMark, Long(fl)>>
  /\ Deref(Regs, Ref("l", fl)).value_ = 1
  /\ tail_args_ = <<Long(fl)>>

\* ------------------------------------------------------------------------
\* SpecDeclare: declarations on a parser and on the global registry, in any
\* order, from names and short names that collide
\* ------------------------------------------------------------------------

DeclFlags == {<<fl, "a">>, <<fl, NUL>>, <<help, "h">>}

DeclArgs == {<<"int", in, "a">>, <<"int", in, NUL>>}

DeclMultiArgs == {<<"int", mu, "a">>, <<"int", mu, NUL>>, <<"int", fl, "c">>}

NextDeclare ==
  \/ Parser_AddFlag(DeclFlags)
  \/ Parser_AddArg(DeclArgs)
  \/ Parser_AddMultiArg(DeclMultiArgs)
  \/ AddGlobalFlag(DeclFlags)
  \/ AddGlobalArg(DeclArgs)
  \/ AddGlobalMultiArg(DeclMultiArgs)

SpecDeclare == Init /\ [][NextDeclare]_vars

\* ------------------------------------------------------------------------
\* Claims checked under SpecDeclare
\* ------------------------------------------------------------------------

\* the holders a registry owns
HoldersOf(H) == {H.holders_[name] : name \in DOMAIN H.holders_}

\* the short names in use in a registry
ShortsOf(H) == {h.shortname_ : h \in HoldersOf(H)} \ {NUL}

\* within a registry no short name is held twice
ShortsUnique(H) ==
  \A h1, h2 \in HoldersOf(H) :
    (h1 # h2 /\ h1.shortname_ # NUL) => h1.shortname_ # h2.shortname_

\* C19 as stated: on a parser that merges the global registry, whatever the
\* order of the declarations, no full name and no short name is held both
\* by a local and by a global holder, and no short name is held twice within
\* a registry.
C19_NoNameLocalAndGlobal ==
  parse_global_args_ =>
    /\ DOMAIN holders_.holders_ \cap DOMAIN global_holders.holders_ = {}
    /\ ShortsOf(holders_) \cap ShortsOf(global_holders) = {}
    /\ ShortsUnique(holders_) /\ ShortsUnique(global_holders)

\* the outcome C20 expects of a registration of holder in the registry H,
\* which the step leaves as H2
Registers(H, H2, holder) ==
  IF holder.fullname_ = help
  THEN err' = Error("'help' is a predefined option", <<>>) /\ H2 = H
  ELSE IF holder.fullname_ \in DOMAIN H.holders_
  THEN err' = Error("Argument is already defined", holder.fullname_) /\ H2 = H
  ELSE IF holder.shortname_ \in ShortsOf(H)
  THEN /\ err' = Error("Argument with shortname is already defined",
                       <<holder.shortname_>>)
       /\ H2 = H
  ELSE /\ err' = NoError
       /\ DOMAIN H2.holders_ = DOMAIN H.holders_ \cup {holder.fullname_}
       /\ H2.holders_[holder.fullname_] = holder
       /\ \A name \in DOMAIN H.holders_ : H2.holders_[name] = H.holders_[name]
       /\ ShortsOf(H2) = ShortsOf(H) \cup ({holder.shortname_} \ {NUL})

\* every short name of the map of H resolves to a holder of H that has that
\* short name, and there is no entry for the absent short name
ShortNamesResolve(H) ==
  /\ NUL \notin DOMAIN H.short_long_mapping_
  /\ DOMAIN H.short_long_mapping_ = ShortsOf(H)
  /\ \A s \in DOMAIN H.short_long_mapping_ :
       /\ H.short_long_mapping_[s] \in DOMAIN H.holders_
       /\ H.holders_[H.short_long_mapping_[s]].shortname_ = s

\* the holders the declarations of SpecDeclare construct
DeclHolders ==
  {NewFlagHolder(d[1], d[2]) : d \in DeclFlags}
    \cup {NewArgHolder(d[1], d[2], d[3]) : d \in DeclArgs}
    \cup {NewMultiArgHolder(d[1], d[2], d[3]) : d \in DeclMultiArgs}

\* C20: a registration in a registry fails, and leaves its two maps as they
\* were, when the full name is "help", when the full name is registered
\* already, or when the short name is not '\0' and is in use already;
\* otherwise it succeeds and adds the holder under its names.  A declaration
\* on the parser fails in these three cases of its own registry as well.
\* In every state each entry of a short-name map resolves to a holder of
\* that registry; holders without a short name are not limited in number.
C20_RegistrationOutcome ==
  [][/\ \A holder \in DeclHolders :
          GlobalDeclare(holder) => Registers(global_holders, global_holders', holder)
     /\ \A holder \in DeclHolders :
          (/\ ParserDeclare(holder)
           /\ \/ holder.fullname_ = help
              \/ holder.fullname_ \in DOMAIN holders_.holders_
              \/ holder.shortname_ \in ShortsOf(holders_))
            => (Failed(err') /\ holders_' = holders_)
     /\ \A holder \in DeclHolders :
          (/\ ParserDeclare(holder)
           /\ global_holders = EmptyHolders)
            => Registers(holders_, holders_', holder)
     /\ ShortNamesResolve(global_holders') /\ ShortNamesResolve(holders_')
    ]_vars

\* C20 witness: the global registry holds three holders, two of them without
\* a short name, and has just refused "help"
C20_Witness ==
  /\ err = Error("'help' is a predefined option", <<>>)
  /\ DOMAIN global_holders.holders_ = {fl, in, mu}
  /\ Cardinality({h \in HoldersOf(global_holders) : h.shortname_ = NUL}) = 2
  /\ DOMAIN global_holders.short_long_mapping_ = {"a"}
  /\ help \notin DOMAIN global_holders.holders_


\* ------------------------------------------------------------------------
\* SpecGlobal: a flag and a single-value argument in the global registry,
\* the same names and short names in a parser that may ignore the global
\* registry, any of the arguments marked required, then a parse
\* ------------------------------------------------------------------------

GlobalTokens == {Short(<<"a", "g">>), LongEq(gi, <<"7">>), Long(fl), <<"4", "2">>}

NextGlobal ==
  \/ AddGlobalFlag({<<fl, "a">>})
  \/ AddGlobalArg({<<"int", gi, "g">>})
  \/ Parser_AddFlag({<<fl, "a">>})
  \/ Parser_AddArg({<<"int", gi, "g">>, <<"int", in, "g">>})
  \/ IgnoreGlobalFlags
  \/ Required
  \/ ParseArgs(ArgVectors(GlobalTokens), {nullopt})
  \/ ScanStep
  \/ PerformPostParseCheck

SpecGlobal == Init /\ [][NextGlobal]_vars

\* ------------------------------------------------------------------------
\* Claims checked under SpecGlobal
\* ------------------------------------------------------------------------

\* the text of a long option token between "--" and its first "="
LongName(tok) ==
  IF Positions(tok, "=") = {}
  THEN SubSeq(tok, 3, Len(tok))
  ELSE SubSeq(tok, 3, (CHOOSE p \in Positions(tok, "=") :
                         \A q \in Positions(tok, "=") : p <= q) - 1)

\* the number of calls the step makes on the holder ref
CallCount(ref) == Cardinality({k \in 1..Len(NewCalls) : NewCalls[k].ref = ref})

\* the step leaves in each global holder it called what the accessor of that
\* holder reads: the cast of the string delivered, or the count raised by
\* the calls
GlobalValuesRead ==
  \A k \in 1..Len(NewCalls) :
    LET c == NewCalls[k]
    IN  c.ref.reg = "g" =>
          IF c.op = "value"
          THEN Deref(Regs', c.ref).value_ =
                 DefaultCaster(Deref(Regs, c.ref).type, c.str)
          ELSE Deref(Regs', c.ref).value_ =
                 Deref(Regs, c.ref).value_ + CallCount(c.ref)

\* C21: while the parser merges the global registry, a long option token
\* whose name is registered there, and every character of a short group
\* whose short name is registered there, is dispatched to the global holder
\* - also when the parser holds a local option of the same name or short
\* name - and never reported as unknown; when the step succeeds the global
\* holder holds the parsed value and no local holder has changed because of
\* such a token.
C21_GlobalHolderFirst ==
  [][LET tok == At(args, i)
     IN  (pc = "scan" /\ parse_global_args_ /\ Some(tok) # tail_mark) =>
           /\ (IsLongOption(tok)
                 /\ LongName(tok) \in DOMAIN global_holders.holders_) =>
                 /\ \A k \in 1..Len(NewCalls) :
                      NewCalls[k].ref = Ref("g", LongName(tok))
                 /\ err'.msg # "Unknown long option"
                 /\ holders_' = holders_
                 /\ pc' # "failed" => (NewCalls # <<>> /\ GlobalValuesRead)
           /\ IsShortGroup(tok) =>
                 /\ \A k \in 1..Len(NewCalls) :
                      At(tok, k) \in DOMAIN global_holders.short_long_mapping_ =>
                        NewCalls[k].ref =
                          Ref("g", global_holders.short_long_mapping_[At(tok, k)])
                 /\ (\A k \in 1..(Len(tok) - 1) :
                       At(tok, k) \in DOMAIN global_holders.short_long_mapping_) =>
                      /\ err'.msg # "Unknown short option"
                      /\ holders_' = holders_
                      /\ pc' # "failed" => (NewCalls # <<>> /\ GlobalValuesRead)
    ]_vars

\* C21 witness: -ag 42 was parsed by a parser that holds a local flag with
\* the short name a and a local argument with the short name g; the global
\* flag was counted and the global argument holds 42, the local ones are as
\* declared
C21_Witness ==
  /\ pc = "done"
  /\ parse_global_args_
  /\ args = <<bin, Short(<<"a", "g">>), <<"4", "2">>>>
  /\ {Ref("g", fl), Ref("g", gi), Ref("l", fl), Ref("l", in)} \subseteq AllRefs
  /\ Deref(Regs, Ref("g", fl)).value_ = 1
  /\ Deref(Regs, Ref("g", gi)).value_ = Some(42)
  /\ Deref(Regs, Ref("l", fl)).value_ = 0
  /\ Deref(Regs, Ref("l", in)).value_ = nullopt


\* the holders a parser of SpecGlobal declares
LocalDeclarations ==
  {NewFlagHolder(fl, "a"), NewArgHolder("int", gi, "g"), NewArgHolder("int", in, "g")}

\* C22: once IgnoreGlobalFlags() was called, a declaration in the parser
\* whose full name and short name are free in the parser succeeds and adds
\* the holder, whatever the global registry holds; the scan calls local
\* holders only and neither the scan nor the post-parse check changes the
\* global registry; the post-parse check passes as soon as no local and no
\* positional holder is required and without a value, also when a global
\* holder is.
C22_GlobalRegistryInvisible ==
  [][~parse_global_args_ =>
       /\ \A d \in LocalDeclarations :
            (/\ pc = "declare"
             /\ ParserDeclare(d)
             /\ d.fullname_ \notin DOMAIN holders_.holders_
             /\ d.shortname_ \notin DOMAIN holders_.short_long_mapping_)
            => (/\ err' = NoError
                /\ d.fullname_ \in DOMAIN holders_'.holders_
                /\ holders_'.holders_[d.fullname_] = d)
       /\ pc \in {"scan", "postcheck"} =>
            /\ global_holders' = global_holders
            /\ \A k \in 1..Len(NewCalls) : NewCalls[k].ref.reg = "l"
       /\ (pc = "scan" /\ IsLongOption(At(args, i))
              /\ LongName(At(args, i)) \in DOMAIN holders_.holders_) =>
            /\ \A k \in 1..Len(NewCalls) :
                 NewCalls[k].ref = Ref("l", LongName(At(args, i)))
            /\ err'.msg # "Unknown long option"
       /\ (pc = "postcheck" /\ Unsatisfied(holders_) = {}
              /\ Unsatisfied(positionals_) = {}) =>
            (pc' = "done" /\ err' = NoError)
    ]_vars

\* C22 witness: a parser that ignores the global registry declared the flag
\* and the argument the global registry holds too, the global argument
\* being required; -ag 42 succeeded, the local holders took the flag and
\* the value, the global ones are as declared
C22_Witness ==
  /\ pc = "done"
  /\ ~parse_global_args_
  /\ args = <<bin, Short(<<"a", "g">>), <<"4", "2">>>>
  /\ {Ref("g", fl), Ref("g", gi), Ref("l", fl), Ref("l", gi)} \subseteq AllRefs
  /\ Deref(Regs, Ref("g", gi)).required_
  /\ Deref(Regs, Ref("g", gi)).value_ = nullopt
  /\ Deref(Regs, Ref("g", fl)).value_ = 0
  /\ Deref(Regs, Ref("l", fl)).value_ = 1
  /\ Deref(Regs, Ref("l", gi)).value_ = Some(42)


\* ------------------------------------------------------------------------
\* SpecScan: a flag, an integer argument and integer positional arguments,
\* any of the arguments required, free arguments enabled or not; vectors of
\* numbers, a word, a short group and the tail mark
\* ------------------------------------------------------------------------

ScanTokens == {<<"1">>, <<"x">>, Short(<<"a", "b">>), TailMark}

NextScan ==
  \/ Parser_AddFlag({<<fl, "a">>})
  \/ Parser_AddArg({<<"int", in, "b">>})
  \/ AddPositionalArg({"int"})
  \/ Required
  \/ EnableFreeArgs
  \/ ParseArgs(ArgVectors(ScanTokens), {nullopt, Some(TailMark)})
  \/ ScanStep
  \/ PerformPostParseCheck

SpecScan == Init /\ [][NextScan]_vars

\* ------------------------------------------------------------------------
\* Claims checked under SpecScan
\* ------------------------------------------------------------------------

\* the free arguments are tokens standing before position k, in the order
\* of the vector
FreeArgsFromBefore(k) ==
  free_args_ # nullopt =>
    \E f \in [1..Len(free_args_[1]) -> 1..(k - 1)] :
      /\ \A m, n \in DOMAIN f : m < n => f[m] < f[n]
      /\ \A m \in DOMAIN f : free_args_[1][m] = Unescaped(At(args, f[m]))

\* the messages of Holders::PerformPostParseCheck
PostParseMessages == {"Now value provided for option"}

\* C23: a holder call of the scan that fails ends ParseArgs at once with
\* the error of that call: the scan index stays on the window, no further
\* step of ParseArgs is taken - in particular not the post-parse check -
\* and the error is kept.  In the state ParseArgs fails in, every holder
\* call made is for a window starting at or before the index, the free
\* arguments are tokens before the index and the tail is empty.  A step of
\* the scan that goes on has no error.
C23_FailFast ==
  [][/\ pc = "scan" =>
          /\ \A k \in 1..Len(NewCalls) :
               LET c == NewCalls[k]
                   r == IF c.op = "value"
                        THEN ProcessValue(Deref(Regs, c.ref), c.str)
                        ELSE ProcessFlag(Deref(Regs, c.ref))
               IN  Failed(r.err) =>
                     /\ pc' = "failed"
                     /\ err' = r.err
                     /\ k = Len(NewCalls)
          /\ pc' = "failed" =>
               /\ Failed(err')
               /\ err'.msg \notin PostParseMessages
               /\ i' = i
               /\ \A k \in 1..Len(log') : log'[k].at <= i
               /\ FreeArgsFromBefore(i)'
               /\ free_args_' = free_args_
               /\ tail_args_' = <<>>
          /\ pc' # "failed" => err' = NoError
     /\ pc # "failed"
    ]_vars

\* C23 witness: the word x could not be cast for the first positional
\* argument; ParseArgs failed there with the cast error, the number after
\* it reached nothing: the second positional argument and the free
\* arguments are empty
C23_Witness ==
  /\ pc = "failed"
  /\ args = <<bin, <<"x">>, <<"1">>>>
  /\ i = 1
  /\ err.msg = "Failed to cast argument string to value type"
  /\ Declared = 2
  /\ Deref(Regs, Positional(0)).value_ = nullopt
  /\ Deref(Regs, Positional(1)).value_ = nullopt
  /\ Deref(Regs, Positional(1)).required_
  /\ free_args_ = Some(<<>>)


\* ------------------------------------------------------------------------
\* SpecCast: an integer argument and integer positional arguments given
\* numbers, negative numbers, words, numbers followed by letters and empty
\* strings
\* ------------------------------------------------------------------------

CastTokens ==
  {LongEq(in, <<>>), LongEq(in, <<"-", "5">>), Long(in), <<"1", "2">>,
   <<"1", "x">>, <<"x">>, <<>>}

NextCast ==
  \/ Parser_AddArg({<<"int", in, "b">>})
  \/ AddPositionalArg({"int"})
  \/ ParseArgs(ArgVectors(CastTokens), {nullopt})
  \/ ScanStep
  \/ PerformPostParseCheck

SpecCast == Init /\ [][NextCast]_vars

\* ------------------------------------------------------------------------
\* Claims checked under SpecCast
\* ------------------------------------------------------------------------

\* s is a decimal integer literal: digits, at least one, after an optional
\* minus sign
IsDecimalLiteral(s) ==
  LET body == IF Len(s) > 0 /\ s[1] = "-" THEN Tail(s) ELSE s
  IN  Len(body) > 0 /\ \A k \in 1..Len(body) : body[k] \in Digits

RECURSIVE DigitsValue(_)
\* the number a string of digits denotes
DigitsValue(s) ==
  IF s = <<>> THEN 0
  ELSE DigitsValue(SubSeq(s, 1, Len(s) - 1)) * 10
         + (CHOOSE d \in 0..9 : to_string(d) = <<s[Len(s)]>>)

\* the integer a decimal integer literal denotes
Denoted(s) == IF s[1] = "-" THEN 0 - DigitsValue(Tail(s)) ELSE DigitsValue(s)

\* C24 as stated: a string delivered to an integer argument is accepted
\* exactly when the whole string is a decimal integer literal, the argument
\* then holding the integer it denotes; every other string - empty, not a
\* number, a number followed by something - fails ParseArgs with the cast
\* error.
C24_StrictIntegerCast ==
  [][\A k \in 1..Len(NewCalls) :
       LET c == NewCalls[k]
       IN  (c.op = "value" /\ Deref(Regs, c.ref).type = "int") =>
             IF IsDecimalLiteral(c.str)
             THEN /\ err' = NoError
                  /\ Deref(Regs', c.ref).value_ = Some(Denoted(c.str))
             ELSE /\ pc' = "failed"
                  /\ err'.msg = "Failed to cast argument string to value type"
                  /\ Deref(Regs', c.ref) = Deref(Regs, c.ref)
    ]_vars


\* ------------------------------------------------------------------------
\* SpecGroup: two flags and a string argument; vectors of short groups
\* that hold the argument's short name in the middle or at the end
\* ------------------------------------------------------------------------

GroupTokens ==
  {Short(<<"a", "b", "a">>), Short(<<"a", "b", "v">>), Short(<<"a", "v", "b">>),
   Short(<<"a", "b">>), <<"4", "2">>}

NextGroup ==
  \/ Parser_AddFlag({<<fl, "a">>, <<ve, "v">>})
  \/ Parser_AddArg({<<"string", in, "b">>})
  \/ ParseArgs(ArgVectors(GroupTokens), {nullopt})
  \/ ScanStep
  \/ PerformPostParseCheck

SpecGroup == Init /\ [][NextGroup]_vars

\* ------------------------------------------------------------------------
\* Claims checked under SpecGroup
\* ------------------------------------------------------------------------

\* the character at position k of the token is the short name of a declared
\* flag
IsFlagChar(tok, k) ==
  /\ GetHolderByShortName(Regs, At(tok, k)) # nullptr
  /\ ~RequiresValue(Deref(Regs, GetHolderByShortName(Regs, At(tok, k))))

\* the positions of the token that are neither the first nor the last of
\* its group, hold the short name of a declared value-requiring option and
\* have only flags before them
MidValuePositions(tok) ==
  {k \in 2..(Len(tok) - 2) :
     /\ GetHolderByShortName(Regs, At(tok, k)) # nullptr
     /\ RequiresValue(Deref(Regs, GetHolderByShortName(Regs, At(tok, k))))
     /\ \A j \in 1..(k - 1) : IsFlagChar(tok, j)}

\* C25: when the scan is at a short group in which a declared
\* value-requiring option stands neither first nor last, after flags,
\* ParseArgs fails there with "Short option requiring an argument is not
\* allowed in the middle of short options group": the step calls the flags
\* before it and nothing else, so no value - neither the rest of the token
\* nor the next token - is delivered, and the option's holder is unchanged.
C25_MidGroupValueOption ==
  [][LET tok == At(args, i)
     IN  (pc = "scan" /\ IsShortGroup(tok)) =>
           \A k \in MidValuePositions(tok) :
             /\ pc' = "failed"
             /\ err' = Error("Short option requiring an argument is not allowed in the middle of short options group", <<>>)
             /\ i' = i
             /\ NewCalls = [j \in 1..(k - 1) |->
                              Call(i, GetHolderByShortName(Regs, At(tok, j)),
                                   "flag", <<>>)]
             /\ Deref(Regs', GetHolderByShortName(Regs, At(tok, k))) =
                  Deref(Regs, GetHolderByShortName(Regs, At(tok, k)))
    ]_vars

\* C25 witness: -aba 42 failed with the mid-group error; the flag before b
\* was counted, the argument holds nothing
C25_Witness ==
  /\ pc = "failed"
  /\ args = <<bin, Short(<<"a", "b", "a">>), <<"4", "2">>>>
  /\ err.msg = "Short option requiring an argument is not allowed in the middle of short options group"
  /\ Deref(Regs, Ref("l", fl)).value_ = 1
  /\ Deref(Regs, Ref("l", in)).value_ = nullopt


\* ------------------------------------------------------------------------
\* SpecShape: a flag, a string argument, string positional arguments and
\* free arguments, each declared or not; vectors of tokens that start with
\* a dash and name declared and undeclared options
\* ------------------------------------------------------------------------

ShapeTokens ==
  {Short(<<"a", "b">>), Short(<<"b", "z">>), Long(fl), LongEq(ve, <<"1">>),
   TailMark, <<"x">>}

NextShape ==
  \/ Parser_AddFlag({<<fl, "a">>})
  \/ Parser_AddArg({<<"string", in, "b">>})
  \/ AddPositionalArg({"string"})
  \/ EnableFreeArgs
  \/ ParseArgs(ArgVectors(ShapeTokens), {nullopt, Some(TailMark)})
  \/ ScanStep
  \/ PerformPostParseCheck

SpecShape == Init /\ [][NextShape]_vars

\* ------------------------------------------------------------------------
\* Claims checked under SpecShape
\* ------------------------------------------------------------------------

\* the scan is at a token of more than one character that starts with a
\* dash and is not the tail mark
AtDashToken ==
  /\ pc = "scan"
  /\ Len(At(args, i)) > 1
  /\ At(At(args, i), 0) = "-"
  /\ Some(At(args, i)) # tail_mark

\* the step binds nothing positionally and collects no free argument
NothingPlain ==
  /\ free_args_' = free_args_
  /\ positionals_' = positionals_
  /\ positional_arg_count' = positional_arg_count
  /\ \A k \in 1..Len(NewCalls) : NewCalls[k].ref.reg # "p"

\* the positions of the token that hold a character no short name of which
\* is registered
UnknownPositions(tok) ==
  {k \in 1..(Len(tok) - 1) : GetHolderByShortName(Regs, At(tok, k)) = nullptr}

InternalTokens == {Long(fl), Short(<<"a", "b">>), TailMark, <<"-">>}

NextInternal ==
  \/ Parser_AddFlag({<<fl, "a">>, <<ve, "a">>, <<ve, NUL>>})
  \/ Parser_AddArg({<<"string", in, "b">>})
  \/ AddGlobalFlag({<<gi, "a">>})
  \/ AddPositionalArg({"string"})
  \/ EnableFreeArgs
  \/ IgnoreGlobalFlags
  \/ ParseArgs(ArgVectors(InternalTokens), {nullopt, Some(TailMark)})
  \/ ScanStep
  \/ PerformPostParseCheck

SpecInternal == Init /\ [][NextInternal]_vars

\* ------------------------------------------------------------------------
\* Claims checked under SpecInternal
\* ------------------------------------------------------------------------

InternalFailure == Error("Argparse internal assumptions failed", <<>>)

\* C27: no declaration and no step of ParseArgs ends with "Argparse
\* internal assumptions failed".  A pass of the scan that goes on past a
\* token other than the tail mark advances the index by one or two; every
\* positional ordinal below the number declared has its holder; a token is
\* handed to ParseLongArg or ParseShortArgs only in the shape they test;
\* every short name in a short-name map belongs to exactly one holder of
\* that registry.
C27_NoInternalFailure ==
  [][/\ err' # InternalFailure
     /\ err'.msg # InternalFailure.msg
     /\ (pc = "scan" /\ pc' # "failed" /\ Some(At(args, i)) # tail_mark) =>
          i' \in {i + 1, i + 2}
     /\ \A k \in 0..(Size(positionals_') - 1) :
          PositionalHolder(positionals_', k) # nullptr
     /\ pc = "scan" =>
          /\ IsLongOption(At(args, i)) =>
               ParseLongArg(Regs, args, i).err # InternalFailure
          /\ IsShortGroup(At(args, i)) =>
               ParseShortArgs(Regs, args, i).err # InternalFailure
     /\ ShortsUnique(global_holders') /\ ShortsUnique(holders_')
     /\ ShortsUnique(positionals_')
    ]_vars

\* C27 witness: a parser with two flags, one without a short name, and two
\* positional arguments, which all have no short name, parsed a lone dash,
\* --fl and a double dash
C27_Witness ==
  /\ pc = "done"
  /\ tail_mark = nullopt
  /\ ~parse_global_args_
  /\ args = <<bin, <<"-">>, Long(fl), <<"-">>>>
  /\ Declared = 2
  /\ {Ref("l", fl), Ref("l", ve), Ref("g", gi)} \subseteq AllRefs
  /\ Deref(Regs, Ref("l", ve)).shortname_ = NUL
  /\ Deref(Regs, Positional(0)).value_ = Some(<<"-">>)
  /\ Deref(Regs, Positional(1)).value_ = Some(<<"-">>)
  /\ Deref(Regs, Ref("l", fl)).value_ = 1


\* ------------------------------------------------------------------------
\* SpecTerm: a flag, a string argument, string positional arguments and
\* free arguments; vectors whose program name is itself shaped like an
\* option.  ParseArgs, once entered, runs its loop and its post-parse check
\* to the end: a sequential function is not suspended between two passes.
\* ------------------------------------------------------------------------

TermTokens == {Long(fl), Long(in), Short(<<"a", "b">>), <<"x">>}

\* the vectors over TermTokens, under the program names bin and --fl
TermVectors ==
  ArgVectors(TermTokens)
    \cup {<<Long(fl)>> \o Tail(v) : v \in ArgVectors(TermTokens)}

NextTerm ==
  \/ Parser_AddFlag({<<fl, "a">>})
  \/ Parser_AddArg({<<"string", in, "b">>})
  \/ AddPositionalArg({"string"})
  \/ EnableFreeArgs
  \/ ParseArgs(TermVectors, {nullopt})
  \/ ScanStep
  \/ PerformPostParseCheck

\* a pass of the loop can be taken exactly while ParseArgs is in its loop:
\* ENABLED <<ScanStep>>_vars, as a predicate on the state
ScanStepEnabled == pc = "scan"

\* WF_vars(ScanStep), with ScanStepEnabled for ENABLED <<ScanStep>>_vars
ScanStepFair == <>[]ScanStepEnabled => []<><<ScanStep>>_vars

SpecTerm ==
  /\ Init /\ [][NextTerm]_vars
  /\ ScanStepFair
  /\ WF_vars(PerformPostParseCheck)

\* ScanStepEnabled is what it stands for
ScanStepEnabledIsEnabled == ScanStepEnabled <=> ENABLED <<ScanStep>>_vars

\* ------------------------------------------------------------------------
\* Claims checked under SpecTerm
\* ------------------------------------------------------------------------

\* the calls made for the window that starts at position j
CallsAt(j) == SelectSeq(log, LAMBDA c : c.at = j)

\* the positions of the tokens read as a long option or as a short group
OptionIdx ==
  {j \in 1..(Len(args) - 1) : CallsAt(j) # <<>> /\ CallsAt(j)[1].ref.reg # "p"}

\* the option token at position j was given the token after it: its last
\* call delivers a value and the token itself holds none (no "=" in a long
\* token, the value-requiring character last in a short group)
TakesNext(j) ==
  LET cs  == CallsAt(j)
      tok == At(args, j)
  IN  /\ cs[Len(cs)].op = "value"
      /\ IF IsLongOption(tok) THEN Positions(tok, "=") = {}
         ELSE Len(cs) = Len(tok) - 1

\* the positions of the tokens given to the option before them
ValueIdx == {j + 1 : j \in {m \in OptionIdx : TakesNext(m)}}

\* the positions of the tokens bound to a positional argument
PositionalIdx ==
  {j \in 1..(Len(args) - 1) : CallsAt(j) # <<>> /\ CallsAt(j)[1].ref.reg = "p"}

\* the positions left
FreeIdx == (1..(Len(args) - 1)) \ (OptionIdx \cup ValueIdx \cup PositionalIdx)

\* the k-th least element of a set of numbers
Nth(S, k) == CHOOSE x \in S : Cardinality({y \in S : y < x}) = k - 1

\* every token after the program name has exactly one role, and each role
\* was played once: option tokens have the shape of options, a value went
\* to the option before it, a positional token made one delivery, the
\* tokens left are the free arguments in order, and a flag counts its calls
ConsumedOnce ==
  /\ \A k \in 1..Len(log) : log[k].at >= 1
  /\ \A j \in OptionIdx : IsLongOption(At(args, j)) \/ IsShortGroup(At(args, j))
  /\ \A j \in OptionIdx :
       TakesNext(j) => (/\ j + 1 <= Len(args) - 1
                        /\ CallsAt(j)[Len(CallsAt(j))].str = At(args, j + 1))
  /\ ValueIdx \cap (OptionIdx \cup PositionalIdx) = {}
  /\ \A j \in PositionalIdx :
       CallsAt(j) = <<Call(j, CallsAt(j)[1].ref, "value", Unescaped(At(args, j)))>>
  /\ \A j \in PositionalIdx \cup FreeIdx :
       ~IsLongOption(At(args, j)) /\ ~IsShortGroup(At(args, j))
  /\ IF free_args_ = nullopt THEN FreeIdx = {}
     ELSE free_args_[1] =
            [k \in 1..Cardinality(FreeIdx) |-> Unescaped(At(args, Nth(FreeIdx, k)))]
  /\ \A ref \in AllRefs :
       /\ Deref(Regs, ref).kind = "flag" =>
            Deref(Regs, ref).value_ = Len(CallsOn(ref))
       /\ Deref(Regs, ref).kind = "arg" =>
            Len(CallsOn(ref)) <= 1 \/ ref.reg # "p"

\* C28: ParseArgs, once entered, ends - it returns or throws; its index
\* starts at 1 and every pass that goes on past a token other than the tail
\* mark raises it by 1 or 2 and never beyond the vector by more than the
\* step; after a successful parse without a tail mark every token after the
\* program name has been consumed exactly once, as an option token, as the
\* value of the option before it, as a positional value or as a free
\* argument, and the program name by nothing.
C28_ScanTerminates ==
  /\ (pc \in {"scan", "postcheck"}) ~> (pc \in {"done", "failed"})
  /\ [][/\ (pc = "declare" /\ pc' # "declare") => i' = 1
        /\ (pc = "scan" /\ pc' # "failed" /\ Some(At(args, i)) # tail_mark) =>
             (i' \in {i + 1, i + 2} /\ i' <= Len(args))
        /\ (pc' = "done" /\ tail_mark' = nullopt) => ConsumedOnce'
       ]_vars

\* C28 witness: under the program name --fl, -ab took the --fl after it as
\* the value of b and x became a free argument; the flag was counted once,
\* for the a of the group
C28_Witness ==
  /\ pc = "done"
  /\ args = <<Long(fl), Short(<<"a", "b">>), Long(fl), <<"x">>>>
  /\ OptionIdx = {1} /\ ValueIdx = {2} /\ FreeIdx = {3}
  /\ Deref(Regs, Ref("l", fl)).value_ = 1
  /\ Deref(Regs, Ref("l", in)).value_ = Some(Long(fl))
  /\ free_args_ = Some(<<<<"x">>>>)


\* ------------------------------------------------------------------------
\* SpecTwo: a flag and a multi-value argument in the global registry and
\* two parsers, the second constructed after ParseArgs of the first
\* returned.  The history notes the construction of the second parser,
\* with the vector the first one was given.
\* ------------------------------------------------------------------------

\* a registry made anew for every parser
GlobalHolders_PerParser(H) == EmptyHolders

\* detail::GlobalHolders(): the registry held by the function's static
\* pointer, the same at every call
GlobalHolders(H) == H

\* the history holds the construction of a second parser
SecondParser == \E k \in 1..Len(log) : log[k].op = "Parser"

\* Parser::Parser, for the second parser
Parser_Parser ==
  /\ pc = "done"
  /\ ~SecondParser
  /\ global_holders' = GlobalHolders(global_holders)
  /\ holders_' = EmptyHolders
  /\ positionals_' = EmptyHolders
  /\ free_args_' = nullopt
  /\ tail_args_' = <<>>
  /\ parse_global_args_' = TRUE
  /\ pc' = "declare"
  /\ args' = <<>>
  /\ tail_mark' = nullopt
  /\ i' = 0
  /\ positional_arg_count' = 0
  /\ err' = NoError
  /\ log' = Append(log, [at |-> 0, ref |-> nullptr, op |-> "Parser", str |-> args])
  /\ UNCHANGED defaulted

TwoTokens == {Short(<<"a", "a">>), LongEq(mu, <<"1">>), Short(<<"c", "5">>)}

NextTwo ==
  \/ AddGlobalFlag({<<fl, "a">>})
  \/ AddGlobalMultiArg({<<"int", mu, "c">>})
  \/ ParseArgs(ArgVectors(TwoTokens), {nullopt})
  \/ ScanStep
  \/ PerformPostParseCheck
  \/ Parser_Parser

SpecTwo == Init /\ [][NextTwo]_vars

\* ------------------------------------------------------------------------
\* Claims checked under SpecTwo
\* ------------------------------------------------------------------------

\* the vector the first parser was given
FirstVector == log[CHOOSE k \in 1..Len(log) : log[k].op = "Parser"].str

\* the value strings the vector a gives to the option called name, in order
TokensIn(a, name) ==
  LET ms == SelectSeq(Mentions(a, nullopt, 1), LAMBDA m : m.opt = name)
  IN  [k \in 1..Len(ms) |-> ms[k].val[1]]

\* C29: the construction of a second parser leaves the global registry as
\* the first ParseArgs left it, while the parser's own registries start
\* empty; after the second ParseArgs a global flag has counted its
\* occurrences in the first vector and in the second, and a global
\* multi-value argument holds the values the first vector gave it followed
\* by those of the second.
C29_GlobalStatePersists ==
  [][/\ (pc = "done" /\ pc' = "declare") =>
          /\ global_holders' = global_holders
          /\ holders_' = EmptyHolders /\ positionals_' = EmptyHolders
     /\ (pc = "declare" /\ pc' # "declare") => global_holders' = global_holders
     /\ (pc' = "done" /\ SecondParser') =>
          /\ Ref("g", fl) \in AllRefs' =>
               Deref(Regs', Ref("g", fl)).value_ =
                 LiteralCount(FirstVector', fl, "a") + LiteralCount(args', fl, "a")
          /\ Ref("g", mu) \in AllRefs' =>
               Deref(Regs', Ref("g", mu)).values_ =
                 CastAll("int", TokensIn(FirstVector', mu))
                   \o CastAll("int", TokensIn(args', mu))
    ]_vars

\* C29 witness: the first parser parsed -aa --mu=1, the second -c5 -aa; the
\* global flag reads 4 and the global multi-value argument holds 1, 5
C29_Witness ==
  /\ pc = "done"
  /\ SecondParser
  /\ FirstVector = <<bin, Short(<<"a", "a">>), LongEq(mu, <<"1">>)>>
  /\ args = <<bin, Short(<<"c", "5">>), Short(<<"a", "a">>)>>
  /\ Deref(Regs, Ref("g", fl)).value_ = 4
  /\ Deref(Regs, Ref("g", mu)).values_ = <<1, 5>>


\* ------------------------------------------------------------------------
\* Further claims checked under SpecValues
\* ------------------------------------------------------------------------

\* the messages of a ProcessValue call that fails on the value: the cast
\* failed, or the value is not among the options
ValueFailures ==
  {"Failed to cast argument string to value type",
   "Failed to cast string to value type",
   "Provided argument string casts to an illegal value"}

\* C30: when the delivery of a value string to a holder fails because the
\* string cannot be cast or casts to a value that is not among the options,
\* a single-value holder is exactly as before the call; a multi-value holder
\* that was called before has its sequence unchanged, and one called for
\* the first time has an empty sequence - its configured default, if it has
\* one, is gone.  The offending value is in neither.
C30_FailedValueNotStored ==
  [][(/\ pc = "scan" /\ pc' = "failed"
      /\ NewCalls # <<>>
      /\ NewCalls[Len(NewCalls)].op = "value"
      /\ err'.msg \in ValueFailures) =>
       LET ref == NewCalls[Len(NewCalls)].ref
           h   == Deref(Regs, ref)
           h2  == Deref(Regs', ref)
       IN  /\ OnlyChanges(ref)
           /\ h.kind = "arg" => h2 = h
           /\ h.kind = "multi" =>
                /\ h2.values_ = IF CallsOn(ref) = <<>> THEN <<>> ELSE h.values_
                /\ h2.options_ = h.options_ /\ h2.required_ = h.required_
    ]_vars

\* C30 witness: the multi-value argument configured with the default 5, 1
\* was given the word x first; the cast failed and the argument is empty
C30_Witness ==
  /\ pc = "failed"
  /\ err.msg = "Failed to cast string to value type"
  /\ Ref("l", mu) \in DOMAIN defaulted
  /\ defaulted[Ref("l", mu)] = <<5, 1>>
  /\ Len(CallsOn(Ref("l", mu))) = 1
  /\ Deref(Regs, Ref("l", mu)).values_ = <<>>

====
